---- MODULE Spec2Model ----
(***************************************************************************)
(* The private vault of ExcaliDash: the client session state machine of    *)
(* frontend/src/context/VaultContext.tsx, the vault calls of the API       *)
(* client, the cipher of frontend/src/utils/crypto.ts and the server vault *)
(* store those calls talk to.                                              *)
(*                                                                         *)
(* Every asynchronous function of the context is split at its awaits on    *)
(* the network: the call, the server's handling of the request, a possible *)
(* transport failure, and the continuation that runs when the promise      *)
(* settles.  State updates made in one continuation are applied together   *)
(* with the effects they trigger (one render).                             *)
(***************************************************************************)
EXTENDS Integers, Sequences, FiniteSets, TLC

\* ------------------------------------------------------------------ bounds
MaxSalts == 2            \* salts generateSalt() hands out in one run
MaxInFlight == 2         \* requests of the vault in flight at once
MaxDrawings == 1         \* drawings that can be moved into the vault
MaxIVs == 1              \* IVs generateIV() hands out in one run

\* --------------------------------------------------------------- constants
SALT_LENGTH == 16
IV_LENGTH == 12
AUTO_LOCK_TIMEOUT == 15 * 60 * 1000
TickMs == 5 * 60 * 1000  \* granularity of the clock

Passwords == {"Correct-Horse1", "New-Password2"}
\* the password a vault is set up with, and the one a rotation moves to
SetupPasswords == {"Correct-Horse1"}
NewPasswords == {"New-Password2"}
Hints == {"stable animal"}
Payloads == {[note |-> "secret", size |-> "small"]}
\* the pages that render an UnlockVaultModal; each modal submits one unlock
\* at a time (its button is disabled while isLoading)
UnlockSites == {"Settings", "PrivateDrawings"}

None == <<>>
Some(v) == <<v>>
Val(o) == o[1]

\* -------------------------------------------------------------- crypto.ts
SaltValue(n) == [i \in 1..SALT_LENGTH |-> (n + 3 * i) % 256]
IVValue(n) == [i \in 1..IV_LENGTH |-> (5 * n + 7 * i) % 256]

\* one byte -> two hex digits (toString(16).padStart(2, "0")), digits as 0..15
bytesToHex(bytes) ==
    [k \in 1..(2 * Len(bytes)) |->
        IF k % 2 = 1 THEN bytes[(k + 1) \div 2] \div 16
                     ELSE bytes[k \div 2] % 16]

\* a faulty hexToBytes that reads one digit per byte, for comparison
hexToBytesLowDigit(hex) ==
    [i \in 1..(Len(hex) \div 2) |-> hex[2 * i]]

hexToBytes(hex) ==
    [i \in 1..(Len(hex) \div 2) |-> hex[2 * i - 1] * 16 + hex[2 * i]]

\* a faulty deriveKey that asks for an extractable key, for comparison
deriveKeyExtractable(password, saltBytes) ==
    [password |-> password, salt |-> saltBytes,
     extractable |-> TRUE, usages |-> {"encrypt", "decrypt"}]

\* PBKDF2(password, salt) -> non-extractable AES-GCM key; the key is a
\* function of exactly (password, salt)
deriveKey(password, saltBytes) ==
    [password |-> password, salt |-> saltBytes,
     extractable |-> FALSE, usages |-> {"encrypt", "decrypt"}]

\* a faulty digest that is the same for every password, for comparison
hashPasswordSame(password) == [sha256 |-> "same"]

\* SHA-256 of the password alone, hex encoded
hashPassword(password) == [sha256 |-> password]

\* ---------------------------------------------------- runtime primitives
\* what a rejected promise or a throw carries
AuthenticationError == [error |-> "OperationError"]
RangeError == [error |-> "RangeError"]
InvalidCharacterError == [error |-> "InvalidCharacterError"]
InvalidAccessError == [error |-> "InvalidAccessError"]
Threw(r) == r \in {AuthenticationError, RangeError, InvalidCharacterError,
                   InvalidAccessError}

\* JSON.stringify / JSON.parse on JSON data
stringify(data) == [json |-> data, size |-> data.size]
parse(text) == text.json

\* TextEncoder.encode / TextDecoder.decode
encode(text) == [utf8 |-> text, size |-> text.size]
decode(bytes) == bytes.utf8

\* String.fromCharCode(...bytes): one call argument per byte, so a buffer
\* longer than the engine's limit on arguments throws
fromCharCode(bytes) ==
    IF bytes.size = "large" THEN RangeError ELSE [chars |-> bytes]
\* Uint8Array.from(binary, c => c.charCodeAt(0))
charCodes(binary) == binary.chars

\* btoa / atob; atob throws on a string that is not base64
btoa(binary) == [base64 |-> binary]
atob(text) ==
    IF "base64" \in DOMAIN text THEN text.base64 ELSE InvalidCharacterError

\* AES-GCM without its tag check, for comparison: a ciphertext opened under
\* another key or IV comes out as garbage
subtleDecryptUnchecked(iv, key, ciphertext) ==
    IF ciphertext.key = key /\ ciphertext.iv = iv /\ ciphertext.tag = "valid"
    THEN ciphertext.gcm
    ELSE [utf8 |-> [json |-> [note |-> "garbage"]], size |-> ciphertext.size]

\* crypto.subtle.encrypt / decrypt with AES-GCM: the ciphertext opens only
\* under the key and IV it was made with and only while its bytes are intact
subtleEncrypt(iv, key, plaintext) ==
    [gcm |-> plaintext, key |-> key, iv |-> iv, tag |-> "valid",
     size |-> plaintext.size]
subtleDecrypt(iv, key, ciphertext) ==
    IF ciphertext.key = key /\ ciphertext.iv = iv /\ ciphertext.tag = "valid"
    THEN ciphertext.gcm
    ELSE AuthenticationError

\* crypto.subtle.exportKey("raw", key)
exportKey(key) ==
    IF key.extractable THEN [raw |-> <<key.password, key.salt>>]
    ELSE InvalidAccessError

\* ------------------------------------------------------------------ state
VARIABLES
    isSetup, isUnlocked, isLoading, passwordHint,   \* VaultState
    sessionKey, salt,                               \* useState
    autoLockTimer,     \* autoLockTimer.current: "null", "live" or "dead"
    timerLeft,         \* ms left of each pending timeout, oldest first;
                       \* a live autoLockTimer.current is the newest one
    idle,              \* ms since the last activity or entry into Unlocked
    last,              \* what the most recently settled call reported, and
                       \* for unlock the error its UnlockVaultModal shows
    vault,             \* server: the PrivateVault row
    drawings,          \* server: encrypted drawings
    calls,             \* requests in flight, with the caller's closure
    random,            \* values crypto.getRandomValues has handed out so far
    users,             \* backend: the User table
    sessions,          \* backend: the Session table
    now,               \* the backend's clock
    handlers,          \* backend: route handlers between two awaits
    issued,            \* tokens and ids handed out so far
    csrfTokenStore,    \* security.ts: the Map, in insertion order
    auth               \* AuthContext: state, localStorage, axios header,
                       \* the initAuth effect, requests in flight

clientVars == <<isSetup, isUnlocked, isLoading, passwordHint, sessionKey, salt,
                autoLockTimer, timerLeft>>
ghostVars == <<idle, last>>
serverVars == <<vault, drawings>>
vaultVars == <<clientVars, ghostVars, serverVars, calls, random>>
backendVars == <<users, sessions, now, handlers, issued, csrfTokenStore, auth>>
vars == <<vaultVars, backendVars>>

\* ------------------------------------------------- crypto.ts: randomness
\* crypto.getRandomValues: a value not handed out before
generateSalt == SaltValue(random.salts + 1)

\* a faulty generateIV that hands out the same IV every time, for comparison
generateIVFixed == IVValue(1)

generateIV == IVValue(random.ivs + 1)

\* ----------------------------------------------------- crypto.ts: cipher
encryptDrawing(data, key) ==
    LET iv == generateIV
        plaintext == encode(stringify(data))
        ciphertext == subtleEncrypt(iv, key, plaintext)
        binary == fromCharCode(ciphertext)
    IN IF binary = RangeError THEN RangeError
       ELSE [encryptedData |-> btoa(binary), iv |-> bytesToHex(iv)]

decryptDrawing(encryptedData, iv, key) ==
    LET binary == atob(encryptedData)
    IN IF binary = InvalidCharacterError THEN InvalidCharacterError
       ELSE LET ciphertext == charCodes(binary)
                ivBytes == hexToBytes(iv)
                plaintext == subtleDecrypt(ivBytes, key, ciphertext)
            IN IF plaintext = AuthenticationError THEN AuthenticationError
               ELSE parse(decode(plaintext))

\* a combined buffer: the bytes of an IV one by one, and the bytes of a
\* ciphertext as one run
ivBytes(iv) == [i \in 1..Len(iv) |-> [byte |-> iv[i]]]
ciphertextBytes(ciphertext) == <<[block |-> ciphertext]>>

\* Uint8Array.prototype.slice(start, end), both clamped to the length
slice(arr, start, end) ==
    LET from == IF start < Len(arr) THEN start ELSE Len(arr)
        to == IF end < Len(arr) THEN end ELSE Len(arr)
    IN SubSeq(arr, from + 1, to)

\* the IV a slice of a combined buffer is read as; a byte of ciphertext in
\* it is no byte of the IV (-1)
asIV(part) ==
    [i \in 1..Len(part) |->
        IF "byte" \in DOMAIN part[i] THEN part[i].byte ELSE -1]
\* the ciphertext a slice of a combined buffer is read as: intact only when
\* the slice is exactly the run of ciphertext bytes
asCiphertext(part) ==
    IF Len(part) = 1 /\ "block" \in DOMAIN part[1]
    THEN part[1].block
    ELSE [gcm |-> [utf8 |-> "", size |-> "small"],
          key |-> [algorithm |-> "none"], iv |-> <<>>,
          tag |-> "broken", size |-> "small"]

\* a faulty encryptString that puts the IV behind the ciphertext, for
\* comparison
encryptStringIVLast(str, key) ==
    LET iv == generateIV
        plaintext == encode(str)
        ciphertext == subtleEncrypt(iv, key, plaintext)
        combined == [bytes |-> ciphertextBytes(ciphertext) \o ivBytes(iv),
                     size |-> ciphertext.size]
        binary == fromCharCode(combined)
    IN IF binary = RangeError THEN RangeError ELSE btoa(binary)

\* the IV travels as the first IV_LENGTH bytes of the combined buffer
encryptString(str, key) ==
    LET iv == generateIV
        plaintext == encode(str)
        ciphertext == subtleEncrypt(iv, key, plaintext)
        combined == [bytes |-> ivBytes(iv) \o ciphertextBytes(ciphertext),
                     size |-> ciphertext.size]
        binary == fromCharCode(combined)
    IN IF binary = RangeError THEN RangeError ELSE btoa(binary)

decryptString(encrypted, key) ==
    LET binary == atob(encrypted)
    IN IF binary = InvalidCharacterError THEN InvalidCharacterError
       ELSE LET combined == charCodes(binary).bytes
                iv == slice(combined, 0, IV_LENGTH)
                ciphertext == slice(combined, IV_LENGTH, Len(combined))
                plaintext == subtleDecrypt(asIV(iv), key,
                                           asCiphertext(ciphertext))
            IN IF plaintext = AuthenticationError THEN AuthenticationError
               ELSE decode(plaintext)

DrawingIds == 1..MaxDrawings

InFlight(op) == {c \in calls : c.op = op}
Start(c) == calls \cup {c}
CanStart == Cardinality(calls) < MaxInFlight
Settle(c) == calls \ {c}
Advance(c, d) == (calls \ {c}) \cup {d}

NoCall == [op |-> "none"]

\* no user, no session, an empty token store, nobody logged in
InitBackend ==
    /\ users = {}
    /\ sessions = {}
    /\ now = 0
    /\ handlers = {}
    /\ issued = [userIds |-> 0, sessionIds |-> 0, jwts |-> {}, csrf |-> {}]
    /\ csrfTokenStore = <<>>
    /\ auth = [state |-> [user |-> None, token |-> None,
                          isAuthenticated |-> FALSE, isLoading |-> TRUE],
               localStorage |-> [token |-> None, user |-> None],
               Authorization |-> None,
               initAuth |-> "todo", pending |-> {}]

Init ==
    /\ InitBackend
    /\ isSetup = FALSE
    /\ isUnlocked = FALSE
    /\ isLoading = TRUE
    /\ passwordHint = None
    /\ sessionKey = None
    /\ salt = None
    /\ autoLockTimer = "null"
    /\ timerLeft = <<>>
    /\ idle = 0
    /\ last = NoCall
    /\ vault = None
    /\ drawings = [d \in DrawingIds |-> None]
    /\ calls = {}
    /\ random = [salts |-> 0, ivs |-> 0]

\* ------------------------------------------------------- auto-lock timer
\* clearTimeout(autoLockTimer.current) and setTimeout(..., AUTO_LOCK_TIMEOUT)
\* on the window's pending timeouts
clearTimeout(timer, left) ==
    IF timer = "live" THEN SubSeq(left, 1, Len(left) - 1) ELSE left
setTimeout(left) == Append(left, AUTO_LOCK_TIMEOUT)

\* a faulty resetAutoLockTimer that arms without clearing, for comparison
resetAutoLockTimerNoClear(timer, left, closureUnlocked) ==
    IF closureUnlocked THEN <<"live", setTimeout(left)>> ELSE <<timer, left>>

\* a faulty resetAutoLockTimer that leaves a pending timer as it is, for
\* comparison
resetAutoLockTimerKeepsDeadline(timer, left, closureUnlocked) ==
    IF timer = "live" THEN <<timer, left>>
    ELSE IF closureUnlocked THEN <<"live", setTimeout(left)>>
    ELSE <<timer, left>>

\* resetAutoLockTimer as captured by a render in which state.isUnlocked was
\* closureUnlocked: clears the current timer, arms a new one only if the
\* closure saw the vault unlocked.  Returns <<autoLockTimer, timerLeft>>.
resetAutoLockTimer(timer, left, closureUnlocked) ==
    LET cleared == clearTimeout(timer, left)
    IN IF closureUnlocked
       THEN <<"live", setTimeout(cleared)>>
       ELSE <<IF timer = "null" THEN "null" ELSE "dead", cleared>>

\* The activity effect, run by the render that follows a continuation:
\* on entering Unlocked it calls the fresh resetAutoLockTimer, on leaving
\* Unlocked its cleanup clears the timer; otherwise it does not run.
activityEffect(timer, left, wasUnlocked, nowUnlocked) ==
    IF ~wasUnlocked /\ nowUnlocked
    THEN resetAutoLockTimer(timer, left, TRUE)
    ELSE IF wasUnlocked /\ ~nowUnlocked
    THEN <<IF timer = "null" THEN "null" ELSE "dead",
           clearTimeout(timer, left)>>
    ELSE <<timer, left>>

\* ------------------------------------------------------------------ lock
\* lock(): returns the client fields
\* <<sessionKey, isUnlocked, autoLockTimer, timerLeft>> after the call
\* a faulty lock that leaves the key in place, for comparison
lockKeepsKey(key, unlocked, timer, left) ==
    <<key, FALSE, "null", clearTimeout(timer, left)>>

lock(key, unlocked, timer, left) ==
    <<None, FALSE, "null", clearTimeout(timer, left)>>

Lock ==
    /\ LET r == lock(sessionKey, isUnlocked, autoLockTimer, timerLeft)
           e == activityEffect(r[3], r[4], isUnlocked, r[2])
       IN /\ sessionKey' = r[1]
          /\ isUnlocked' = r[2]
          /\ autoLockTimer' = e[1]
          /\ timerLeft' = e[2]
    /\ idle' = 0
    /\ last' = [op |-> "lock", again |-> last.op = "lock"]
    /\ UNCHANGED <<isSetup, isLoading, passwordHint, salt, serverVars, calls>>
    /\ UNCHANGED random
    /\ UNCHANGED backendVars

\* ------------------------------------------------- API client requests
\* what each vault call of the API client puts on the wire
getVaultStatus == [method |-> "GET", url |-> "/vault/status", body |-> <<>>]
setupVault(passwordHash, saltHex, hint) ==
    [method |-> "POST", url |-> "/vault/setup",
     body |-> [passwordHash |-> passwordHash, salt |-> saltHex, hint |-> hint]]
verifyVaultPassword(password) ==
    [method |-> "POST", url |-> "/vault/verify",
     body |-> [password |-> password]]
\* a faulty client that sends a salt with the hint, for comparison
updateVaultHintWithSalt(hint) ==
    [method |-> "PUT", url |-> "/vault/hint",
     body |-> [hint |-> hint, salt |-> bytesToHex(SaltValue(1))]]
updateVaultHint(hint) ==
    [method |-> "PUT", url |-> "/vault/hint", body |-> [hint |-> hint]]
\* a faulty client that ships the new key with the rotation, for comparison
changeVaultPasswordWithKey(newPasswordHash, newSaltHex, oldKey, newKey) ==
    [method |-> "PUT", url |-> "/vault/password",
     body |-> [passwordHash |-> newPasswordHash, salt |-> newSaltHex,
               key |-> newKey]]

changeVaultPassword(newPasswordHash, newSaltHex, oldKey, newKey) ==
    [method |-> "PUT", url |-> "/vault/password",
     body |-> [passwordHash |-> newPasswordHash, salt |-> newSaltHex]]

\* the request a call in flight has on the wire, built from the arguments
\* the context passes to the API client
Request(c) ==
    CASE c.op = "status" -> getVaultStatus
      [] c.op = "setup" -> setupVault(c.passwordHash, c.saltHex, c.hint)
      [] c.op = "hint" -> updateVaultHint(c.hint)
      [] c.op \in {"unlock", "change"} /\ c.pc \in {"sent", "resp"}
            -> verifyVaultPassword(c.digest)
      [] OTHER -> changeVaultPassword(c.newPasswordHash, c.newSaltHex,
                                      c.oldKey, c.newKey)

\* -------------------------------------------------- server vault store
\* the server reads nothing of a call but its request
\* the slow server-side hash of the client digest
serverHash(digest) == [bcrypt |-> digest]

\* GET /vault/status
ServerStatus(c) ==
    /\ c.op = "status" /\ c.pc = "sent"
    /\ calls' = Advance(c, [op |-> "status", pc |-> "resp",
                  res |-> IF vault = None
                          THEN [isSetup |-> FALSE, salt |-> None, hint |-> ""]
                          ELSE [isSetup |-> TRUE,
                                salt |-> Some(Val(vault).salt),
                                hint |-> Val(vault).hint]])
    /\ UNCHANGED <<clientVars, ghostVars, serverVars>>
    /\ UNCHANGED random
    /\ UNCHANGED backendVars

\* POST /vault/verify: success and the stored salt, on success only
ServerVerify(c) ==
    /\ c.op \in {"unlock", "change"} /\ c.pc = "sent"
    /\ vault # None
    /\ LET ok == Val(vault).passwordHash = serverHash(Request(c).body.password)
       IN calls' = Advance(c, [c EXCEPT !.pc = "resp"] @@
                     [res |-> [success |-> ok,
                               salt |-> IF ok THEN Some(Val(vault).salt)
                                        ELSE None]])
    /\ UNCHANGED <<clientVars, ghostVars, serverVars>>
    /\ UNCHANGED random
    /\ UNCHANGED backendVars

\* POST /vault/setup: creates the record when none exists
ServerSetup(c) ==
    /\ c.op = "setup" /\ c.pc = "sent"
    /\ vault = None
    /\ vault' = Some([passwordHash |-> serverHash(Request(c).body.passwordHash),
                      salt |-> Request(c).body.salt,
                      hint |-> Request(c).body.hint])
    /\ calls' = Advance(c, [c EXCEPT !.pc = "resp"])
    /\ UNCHANGED <<clientVars, ghostVars, drawings>>
    /\ UNCHANGED random
    /\ UNCHANGED backendVars

\* PUT /vault/password: replaces hash and salt together
ServerChangePassword(c) ==
    /\ c.op = "change" /\ c.pc = "put_sent"
    /\ vault # None
    /\ vault' = Some([Val(vault) EXCEPT
                        !.passwordHash =
                            serverHash(Request(c).body.passwordHash),
                        !.salt = Request(c).body.salt])
    /\ calls' = Advance(c, [c EXCEPT !.pc = "put_resp"])
    /\ UNCHANGED <<clientVars, ghostVars, drawings>>
    /\ UNCHANGED random
    /\ UNCHANGED backendVars

\* A call whose promise can reject: the request is still on its way (lost,
\* or refused by the server), or the response is (lost on the way back).
CanFail(c) == c.pc \in {"sent", "resp", "put_sent", "put_resp"}

\* ------------------------------------------------------ checkVaultStatus
CheckVaultStatusCall ==
    /\ InFlight("status") = {}
    /\ CanStart
    /\ isLoading' = TRUE
    /\ calls' = Start([op |-> "status", pc |-> "sent"])
    /\ UNCHANGED <<isSetup, isUnlocked, passwordHint, sessionKey, salt,
                   autoLockTimer, timerLeft, ghostVars, serverVars>>
    /\ UNCHANGED random
    /\ UNCHANGED backendVars

CheckVaultStatusReturn(c) ==
    /\ c.op = "status" /\ c.pc = "resp"
    /\ calls' = Settle(c)
    /\ isLoading' = FALSE
    /\ isSetup' = c.res.isSetup
    /\ passwordHint' = IF c.res.hint = "" THEN None ELSE Some(c.res.hint)
    /\ salt' = IF c.res.salt # None
               THEN Some(hexToBytes(Val(c.res.salt))) ELSE salt
    /\ UNCHANGED <<isUnlocked, sessionKey, autoLockTimer, timerLeft,
                   ghostVars, serverVars>>
    /\ UNCHANGED random
    /\ UNCHANGED backendVars

CheckVaultStatusCatch(c) ==
    /\ c.op = "status" /\ CanFail(c)
    /\ calls' = Settle(c)
    /\ isLoading' = FALSE
    /\ UNCHANGED <<isSetup, passwordHint, salt, isUnlocked, sessionKey,
                   autoLockTimer, timerLeft, ghostVars, serverVars>>
    /\ UNCHANGED random
    /\ UNCHANGED backendVars

\* ---------------------------------------------------------------- unlock
\* the modal of a page is open only while the vault is set up and locked
UnlockCall(site, password) ==
    /\ isSetup /\ ~isUnlocked /\ ~isLoading
    /\ \A c \in InFlight("unlock") : c.site # site
    /\ CanStart
    /\ calls' = Start([op |-> "unlock", pc |-> "sent", site |-> site,
                       password |-> password,
                       digest |-> hashPassword(password),
                       closure |-> isUnlocked])
    /\ UNCHANGED <<clientVars, idle, last, serverVars>>
    /\ UNCHANGED random
    /\ UNCHANGED backendVars

\* UnlockVaultModal.handleSubmit: the error shown for unlock's return value
handleSubmitError(success) ==
    IF success THEN None ELSE Some("Incorrect password")

\* what unlock returns from its catch block
unlockCatchResult == FALSE

\* the continuation of unlock after the verification response
UnlockReturn(c) ==
    /\ c.op = "unlock" /\ c.pc = "resp"
    /\ calls' = Settle(c)
    /\ IF c.res.success
       THEN LET saltBytes == hexToBytes(Val(c.res.salt))
                r == resetAutoLockTimer(autoLockTimer, timerLeft, c.closure)
                e == activityEffect(r[1], r[2], isUnlocked, TRUE)
            IN /\ salt' = Some(saltBytes)
               /\ sessionKey' = Some(deriveKey(c.password, saltBytes))
               /\ isUnlocked' = TRUE
               /\ autoLockTimer' = e[1]
               /\ timerLeft' = e[2]
               /\ idle' = 0
       ELSE UNCHANGED <<salt, sessionKey, isUnlocked, autoLockTimer,
                        timerLeft, idle>>
    /\ last' = [op |-> "unlock", result |-> c.res.success,
                verify |-> IF c.res.success THEN "accepted" ELSE "rejected",
                error |-> handleSubmitError(c.res.success)]
    /\ UNCHANGED <<isSetup, isLoading, passwordHint, serverVars>>
    /\ UNCHANGED random
    /\ UNCHANGED backendVars

\* the catch of unlock: the verification request failed
UnlockCatch(c) ==
    /\ c.op = "unlock" /\ CanFail(c)
    /\ calls' = Settle(c)
    /\ last' = [op |-> "unlock", result |-> unlockCatchResult,
                verify |-> "failed",
                error |-> handleSubmitError(unlockCatchResult)]
    /\ UNCHANGED <<clientVars, idle, serverVars>>
    /\ UNCHANGED random
    /\ UNCHANGED backendVars

\* ------------------------------------------------------------ setupVault
\* the setup modal is offered only while the vault is not set up
SetupVaultCall(password, hint) ==
    /\ ~isSetup /\ ~isLoading
    /\ InFlight("setup") = {}
    /\ CanStart
    /\ random.salts < MaxSalts
    /\ random' = [random EXCEPT !.salts = @ + 1]
    /\ LET newSalt == generateSalt
       IN calls' = Start([op |-> "setup", pc |-> "sent", password |-> password,
                          salt |-> newSalt, saltHex |-> bytesToHex(newSalt),
                          passwordHash |-> hashPassword(password),
                          hint |-> hint, closure |-> isUnlocked])
    /\ UNCHANGED <<clientVars, ghostVars, serverVars>>
    /\ UNCHANGED backendVars

\* a faulty continuation that does not record isSetup, for comparison
SetupVaultReturnNotSetUp(c) ==
    /\ c.op = "setup" /\ c.pc = "resp"
    /\ calls' = Settle(c)
    /\ LET r == resetAutoLockTimer(autoLockTimer, timerLeft, c.closure)
           e == activityEffect(r[1], r[2], isUnlocked, TRUE)
       IN /\ salt' = Some(c.salt)
          /\ sessionKey' = Some(deriveKey(c.password, c.salt))
          /\ isSetup' = isSetup
          /\ isUnlocked' = TRUE
          /\ passwordHint' = IF c.hint = "" THEN None ELSE Some(c.hint)
          /\ autoLockTimer' = e[1]
          /\ timerLeft' = e[2]
    /\ idle' = 0
    /\ last' = [op |-> "setup", result |-> "ok", persisted |-> c.saltHex]
    /\ UNCHANGED <<isLoading, serverVars>>
    /\ UNCHANGED random
    /\ UNCHANGED backendVars

SetupVaultReturn(c) ==
    /\ c.op = "setup" /\ c.pc = "resp"
    /\ calls' = Settle(c)
    /\ LET r == resetAutoLockTimer(autoLockTimer, timerLeft, c.closure)
           e == activityEffect(r[1], r[2], isUnlocked, TRUE)
       IN /\ salt' = Some(c.salt)
          /\ sessionKey' = Some(deriveKey(c.password, c.salt))
          /\ isSetup' = TRUE
          /\ isUnlocked' = TRUE
          /\ passwordHint' = IF c.hint = "" THEN None ELSE Some(c.hint)
          /\ autoLockTimer' = e[1]
          /\ timerLeft' = e[2]
    /\ idle' = 0
    /\ last' = [op |-> "setup", result |-> "ok", persisted |-> c.saltHex]
    /\ UNCHANGED <<isLoading, serverVars>>
    /\ UNCHANGED random
    /\ UNCHANGED backendVars

\* a faulty catch of a setup that stored its salt before the request, for
\* comparison
SetupVaultCatchKeepsSalt(c) ==
    /\ c.op = "setup" /\ CanFail(c)
    /\ calls' = Settle(c)
    /\ salt' = Some(hexToBytes(c.saltHex))
    /\ last' = [op |-> "setup", result |-> "error"]
    /\ UNCHANGED <<isSetup, isUnlocked, isLoading, passwordHint, sessionKey,
                   autoLockTimer, timerLeft, idle, serverVars>>
    /\ UNCHANGED random
    /\ UNCHANGED backendVars

\* the catch of setupVault: rethrown
SetupVaultCatch(c) ==
    /\ c.op = "setup" /\ CanFail(c)
    /\ calls' = Settle(c)
    /\ last' = [op |-> "setup", result |-> "error"]
    /\ UNCHANGED <<clientVars, idle, serverVars>>
    /\ UNCHANGED random
    /\ UNCHANGED backendVars

\* -------------------------------------------------------- changePassword
\* Settings offers Change Password whenever the vault is set up; the call
\* remembers whether the vault was unlocked when it was made
ChangePasswordCall(oldPassword, newPassword) ==
    /\ isSetup /\ ~isLoading
    /\ InFlight("change") = {}
    /\ CanStart
    /\ calls' = Start([op |-> "change", pc |-> "sent",
                       password |-> oldPassword, newPassword |-> newPassword,
                       digest |-> hashPassword(oldPassword),
                       invokedUnlocked |-> isUnlocked])
    /\ UNCHANGED <<clientVars, ghostVars, serverVars>>
    /\ UNCHANGED random
    /\ UNCHANGED backendVars

\* a faulty continuation that goes on to the PUT whatever the verification
\* answered, for comparison
ChangePasswordVerifiedUnchecked(c) ==
    /\ c.op = "change" /\ c.pc = "resp"
    /\ random.salts < MaxSalts
    /\ LET oldSalt == IF c.res.salt = None THEN SaltValue(0)
                      ELSE hexToBytes(Val(c.res.salt))
           newSalt == generateSalt
       IN /\ random' = [random EXCEPT !.salts = @ + 1]
          /\ calls' = Advance(c,
                [op |-> "change", pc |-> "put_sent",
                 password |-> c.password, newPassword |-> c.newPassword,
                 oldKey |-> deriveKey(c.password, oldSalt),
                 newSalt |-> newSalt,
                 newKey |-> deriveKey(c.newPassword, newSalt),
                 newPasswordHash |-> hashPassword(c.newPassword),
                 newSaltHex |-> bytesToHex(newSalt),
                 invokedUnlocked |-> c.invokedUnlocked])
          /\ UNCHANGED last
    /\ UNCHANGED <<clientVars, idle, serverVars>>
    /\ UNCHANGED backendVars

\* after the verification response: throw on a rejected old password, else
\* derive both keys and send the new hash and salt (api.changeVaultPassword
\* ignores its key arguments)
ChangePasswordVerified(c) ==
    /\ c.op = "change" /\ c.pc = "resp"
    /\ c.res.success => random.salts < MaxSalts
    /\ IF ~c.res.success
       THEN /\ calls' = Settle(c)
            /\ UNCHANGED random
            /\ last' = [op |-> "change", result |-> "error",
                        message |-> "Invalid current password"]
       ELSE LET oldSalt == hexToBytes(Val(c.res.salt))
                newSalt == generateSalt
            IN /\ random' = [random EXCEPT !.salts = @ + 1]
               /\ calls' = Advance(c,
                     [op |-> "change", pc |-> "put_sent",
                      password |-> c.password, newPassword |-> c.newPassword,
                      oldKey |-> deriveKey(c.password, oldSalt),
                      newSalt |-> newSalt,
                      newKey |-> deriveKey(c.newPassword, newSalt),
                      newPasswordHash |-> hashPassword(c.newPassword),
                      newSaltHex |-> bytesToHex(newSalt),
                      invokedUnlocked |-> c.invokedUnlocked])
               /\ UNCHANGED last
    /\ UNCHANGED <<clientVars, idle, serverVars>>
    /\ UNCHANGED backendVars

\* the continuation after PUT /vault/password
\* a faulty continuation that keeps the old session key, for comparison
ChangePasswordReturnKeepsKey(c) ==
    /\ c.op = "change" /\ c.pc = "put_resp"
    /\ calls' = Settle(c)
    /\ salt' = Some(c.newSalt)
    /\ last' = [op |-> "change", result |-> "ok"]
    /\ UNCHANGED <<isSetup, isUnlocked, isLoading, passwordHint, sessionKey,
                   autoLockTimer, timerLeft, idle, serverVars>>
    /\ UNCHANGED random
    /\ UNCHANGED backendVars

\* the PUT answered: setSalt(newSalt); setSessionKey(newKey)
ChangePasswordReturn(c) ==
    /\ c.op = "change" /\ c.pc = "put_resp"
    /\ calls' = Settle(c)
    /\ salt' = Some(c.newSalt)
    /\ sessionKey' = Some(c.newKey)
    /\ last' = [op |-> "change", result |-> "ok"]
    /\ UNCHANGED <<isSetup, isUnlocked, isLoading, passwordHint, autoLockTimer,
                   timerLeft, idle, serverVars>>
    /\ UNCHANGED random
    /\ UNCHANGED backendVars

\* the catch of changePassword: a request of the call failed; rethrown
ChangePasswordCatch(c) ==
    /\ c.op = "change" /\ CanFail(c)
    /\ calls' = Settle(c)
    /\ last' = [op |-> "change", result |-> "error", message |-> "Network Error"]
    /\ UNCHANGED <<clientVars, idle, serverVars>>
    /\ UNCHANGED random
    /\ UNCHANGED backendVars

\* ------------------------------------------------------------ updateHint
\* the hint a later updateHint sets
NewHints == {"first pet"}

\* the context exposes updateHint without a condition
UpdateHintCall(hint) ==
    /\ InFlight("hint") = {}
    /\ CanStart
    /\ calls' = Start([op |-> "hint", pc |-> "sent", hint |-> hint])
    /\ UNCHANGED <<clientVars, ghostVars, serverVars>>
    /\ UNCHANGED random
    /\ UNCHANGED backendVars

\* PUT /vault/hint: replaces the hint of an existing record
ServerUpdateHint(c) ==
    /\ c.op = "hint" /\ c.pc = "sent"
    /\ vault # None
    /\ vault' = Some([Val(vault) EXCEPT !.hint = Request(c).body.hint])
    /\ calls' = Advance(c, [c EXCEPT !.pc = "resp"])
    /\ UNCHANGED <<clientVars, ghostVars, drawings>>
    /\ UNCHANGED random
    /\ UNCHANGED backendVars

UpdateHintReturn(c) ==
    /\ c.op = "hint" /\ c.pc = "resp"
    /\ calls' = Settle(c)
    /\ passwordHint' = Some(c.hint)
    /\ UNCHANGED <<isSetup, isUnlocked, isLoading, sessionKey, salt,
                   autoLockTimer, timerLeft, ghostVars, serverVars>>
    /\ UNCHANGED random
    /\ UNCHANGED backendVars

\* the catch of updateHint: rethrown
UpdateHintCatch(c) ==
    /\ c.op = "hint" /\ CanFail(c)
    /\ calls' = Settle(c)
    /\ UNCHANGED <<clientVars, ghostVars, serverVars>>
    /\ UNCHANGED random
    /\ UNCHANGED backendVars

\* ------------------------------------------------------ private drawings
\* moving a drawing into the vault: encryptDrawing under the session key,
\* then PUT /drawings/:id/lock
LockDrawing(d, data) ==
    /\ sessionKey # None
    /\ random.ivs < MaxIVs
    /\ LET sealed == encryptDrawing(data, Val(sessionKey))
       IN /\ drawings' = IF Threw(sealed) THEN drawings
                         ELSE [drawings EXCEPT ![d] = Some(sealed)]
          /\ last' = [op |-> "lockDrawing", d |-> d,
                      stored |-> ~Threw(sealed),
                      rotating |-> InFlight("change") # {}]
    /\ random' = [random EXCEPT !.ivs = @ + 1]
    /\ UNCHANGED <<clientVars, idle, vault, calls>>
    /\ UNCHANGED backendVars

\* handleRemoveFromVault: decrypts with vault.sessionKey and stores the
\* plaintext; a drawing that does not open stays where it is
RemoveFromVault(d) ==
    /\ sessionKey # None
    /\ drawings[d] # None
    /\ LET rec == Val(drawings[d])
           plain == decryptDrawing(rec.encryptedData, rec.iv, Val(sessionKey))
       IN IF Threw(plain)
          THEN /\ UNCHANGED drawings
               /\ last' = [op |-> "remove", result |-> "error"]
          ELSE /\ drawings' = [drawings EXCEPT ![d] = None]
               /\ last' = [op |-> "remove", result |-> "ok"]
    /\ UNCHANGED <<clientVars, idle, vault, calls>>
    /\ UNCHANGED random
    /\ UNCHANGED backendVars

\* ------------------------------------------------------ activity and time
\* mousemove / keydown / click while the listeners are attached
Activity ==
    /\ isUnlocked
    /\ LET r == resetAutoLockTimer(autoLockTimer, timerLeft, TRUE)
       IN autoLockTimer' = r[1] /\ timerLeft' = r[2]
    /\ idle' = 0
    /\ UNCHANGED <<isSetup, isUnlocked, isLoading, passwordHint, sessionKey,
                   salt, last, serverVars, calls>>
    /\ UNCHANGED random
    /\ UNCHANGED backendVars

\* a pending timeout has run out
Due == {i \in DOMAIN timerLeft : timerLeft[i] = 0}
TimerDue == Due # {}

\* time passes, unless a timer is due
Tick ==
    /\ ~TimerDue
    /\ isUnlocked \/ timerLeft # <<>>
    /\ idle <= AUTO_LOCK_TIMEOUT
    /\ timerLeft' = [i \in DOMAIN timerLeft |-> timerLeft[i] - TickMs]
    /\ idle' = IF isUnlocked THEN idle + TickMs ELSE idle
    /\ UNCHANGED <<isSetup, isUnlocked, isLoading, passwordHint, sessionKey,
                   salt, autoLockTimer, last,
                   serverVars, calls>>
    /\ UNCHANGED random
    /\ UNCHANGED backendVars

\* a timeout fires and leaves the pending ones; its callback is lock()
AutoLock ==
    /\ \E i \in Due :
       LET fired == [j \in 1..(Len(timerLeft) - 1) |->
                        IF j < i THEN timerLeft[j] ELSE timerLeft[j + 1]]
           timer == IF autoLockTimer = "live" /\ i = Len(timerLeft)
                    THEN "dead" ELSE autoLockTimer
           r == lock(sessionKey, isUnlocked, timer, fired)
           e == activityEffect(r[3], r[4], isUnlocked, r[2])
       IN /\ sessionKey' = r[1]
          /\ isUnlocked' = r[2]
          /\ autoLockTimer' = e[1]
          /\ timerLeft' = e[2]
    /\ idle' = 0
    /\ last' = [op |-> "lock", again |-> last.op = "lock"]
    /\ UNCHANGED <<isSetup, isLoading, passwordHint, salt, serverVars, calls>>
    /\ UNCHANGED random
    /\ UNCHANGED backendVars

\* ------------------------------------------------------------------ next
Server ==
    \E c \in calls :
        \/ ServerStatus(c)
        \/ ServerVerify(c)
        \/ ServerSetup(c)
        \/ ServerChangePassword(c)

Status ==
    \/ CheckVaultStatusCall
    \/ \E c \in calls : CheckVaultStatusReturn(c)
    \/ \E c \in calls : CheckVaultStatusCatch(c)

Session ==
    \/ \E site \in UnlockSites, p \in Passwords : UnlockCall(site, p)
    \/ \E c \in calls : UnlockReturn(c)
    \/ \E c \in calls : UnlockCatch(c)
    \/ \E p \in SetupPasswords, h \in Hints : SetupVaultCall(p, h)
    \/ \E c \in calls : SetupVaultReturn(c)
    \/ \E c \in calls : SetupVaultCatch(c)
    \/ \E p \in Passwords, q \in NewPasswords : ChangePasswordCall(p, q)
    \/ \E c \in calls : ChangePasswordVerified(c)
    \/ \E c \in calls : ChangePasswordReturn(c)
    \/ \E c \in calls : ChangePasswordCatch(c)
    \/ Lock

Drawings ==
    \/ \E d \in DrawingIds, data \in Payloads : LockDrawing(d, data)
    \/ \E d \in DrawingIds : RemoveFromVault(d)

Timer == Activity \/ Tick \/ AutoLock

Next == Status \/ Session \/ Server

\* the session state machine
Spec == Init /\ [][Next]_vars

\* the session with the clock and the auto-lock timer
NextTimer == Next \/ Timer
SpecTimer == Init /\ [][NextTimer]_vars

\* the session with updateHint
Hint ==
    \/ \E h \in NewHints : UpdateHintCall(h)
    \/ \E c \in calls : ServerUpdateHint(c)
    \/ \E c \in calls : UpdateHintReturn(c)
    \/ \E c \in calls : UpdateHintCatch(c)
NextHint == Next \/ Hint
SpecHint == Init /\ [][NextHint]_vars

\* the session with the encrypted drawings of the vault
NextRekey == Next \/ Drawings
SpecRekey == Init /\ [][NextRekey]_vars

\* --------------------------------------------------------- cipher in use
MaxSeals == 3            \* seal calls in one run

\* drawings as the editor hands them over; one carries an embedded image
CipherPayloads ==
    Payloads \cup {[note |-> "sketch with an image", size |-> "large"]}
\* the drawing whose record the cipher run seals, damages and opens
CipherIds == {1}
Names == {[text |-> "Untitled", size |-> "small"]}
\* a stored value that is no longer base64
NotBase64 == [text |-> "%"]
\* every key a session of this vault can hold, now or earlier
Keys == {deriveKey(W, SaltValue(n)) : W \in Passwords, n \in 0..MaxSalts}

\* an unlocked session: the key is derived from the vault's password and salt
InitCipher ==
    \E W \in Passwords, n \in 1..MaxSalts, h \in Hints :
        /\ InitBackend
        /\ isSetup = TRUE
        /\ isUnlocked = TRUE
        /\ isLoading = FALSE
        /\ passwordHint = Some(h)
        /\ sessionKey = Some(deriveKey(W, SaltValue(n)))
        /\ salt = Some(SaltValue(n))
        /\ autoLockTimer = "live"
        /\ timerLeft = <<AUTO_LOCK_TIMEOUT>>
        /\ idle = 0
        /\ last = NoCall
        /\ vault = Some([passwordHash |-> serverHash(hashPassword(W)),
                         salt |-> bytesToHex(SaltValue(n)), hint |-> h])
        /\ drawings = [d \in DrawingIds |-> None]
        /\ calls = {}
        /\ random = [salts |-> n, ivs |-> 0]

\* encryptDrawing under the session key; the record is stored if it was made
SealDrawing(d, data) ==
    /\ sessionKey # None
    /\ random.ivs < MaxSeals
    /\ LET sealed == encryptDrawing(data, Val(sessionKey))
       IN /\ drawings' = IF Threw(sealed) THEN drawings
                         ELSE [drawings EXCEPT ![d] = Some(sealed)]
          /\ last' = [op |-> "encryptDrawing", data |-> data,
                      key |-> Val(sessionKey), result |-> sealed]
    /\ random' = [random EXCEPT !.ivs = @ + 1]
    /\ UNCHANGED <<clientVars, idle, vault, calls>>
    /\ UNCHANGED backendVars

\* decryptDrawing of a stored record with the key the caller holds
OpenDrawing(d, key) ==
    /\ drawings[d] # None
    /\ LET rec == Val(drawings[d])
       IN last' = [op |-> "decryptDrawing", record |-> rec, key |-> key,
                   result |-> decryptDrawing(rec.encryptedData, rec.iv, key)]
    /\ UNCHANGED <<clientVars, idle, serverVars, calls, random>>
    /\ UNCHANGED backendVars

\* encryptString under the session key
SealString(str) ==
    /\ sessionKey # None
    /\ random.ivs < MaxSeals
    /\ last' = [op |-> "encryptString", str |-> str, key |-> Val(sessionKey),
                encrypted |-> encryptString(str, Val(sessionKey)),
                damage |-> "none"]
    /\ random' = [random EXCEPT !.ivs = @ + 1]
    /\ UNCHANGED <<clientVars, idle, serverVars, calls>>
    /\ UNCHANGED backendVars

\* decryptString of the value last sealed, with the key the caller holds
OpenString(key) ==
    /\ last.op \in {"encryptString", "decryptString"}
    /\ ~Threw(last.encrypted)
    /\ last' = [op |-> "decryptString", str |-> last.str, key |-> key,
                sealedWith |-> IF last.op = "encryptString" THEN last.key
                               ELSE last.sealedWith,
                encrypted |-> last.encrypted, damage |-> last.damage,
                result |-> decryptString(last.encrypted, key)]
    /\ UNCHANGED <<clientVars, idle, serverVars, calls, random>>
    /\ UNCHANGED backendVars

\* what can happen to a stored ciphertext: its bytes change, or the stored
\* text is no longer base64
damagedCiphertext(encryptedData, how) ==
    IF how = "bytes"
    THEN [encryptedData EXCEPT !.base64.chars.tag = "broken"]
    ELSE NotBase64
\* a hex IV with its first digit replaced by another
tamperedIV(iv) == [iv EXCEPT ![1] = 15 - @]

CorruptCiphertext(d, how) ==
    /\ drawings[d] # None
    /\ "base64" \in DOMAIN Val(drawings[d]).encryptedData
    /\ drawings' = [drawings EXCEPT
                      ![d] = Some([Val(@) EXCEPT !.encryptedData =
                                      damagedCiphertext(@, how)])]
    /\ UNCHANGED <<clientVars, ghostVars, vault, calls, random>>
    /\ UNCHANGED backendVars

TamperIV(d) ==
    /\ drawings[d] # None
    /\ drawings' = [drawings EXCEPT
                      ![d] = Some([Val(@) EXCEPT !.iv = tamperedIV(@)])]
    /\ UNCHANGED <<clientVars, ghostVars, vault, calls, random>>
    /\ UNCHANGED backendVars

\* the same for a sealed string, whose IV is the head of the stored value
DamageString(how) ==
    /\ last.op = "encryptString"
    /\ ~Threw(last.encrypted)
    /\ last.damage = "none"
    /\ last' = [last EXCEPT
                  !.damage = how,
                  !.encrypted =
                      IF how = "bytes"
                      THEN [@ EXCEPT !.base64.chars.bytes[IV_LENGTH + 1]
                                        .block.tag = "broken"]
                      ELSE IF how = "iv"
                      THEN [@ EXCEPT !.base64.chars.bytes[1].byte = 255 - @]
                      ELSE NotBase64]
    /\ UNCHANGED <<clientVars, idle, serverVars, calls, random>>
    /\ UNCHANGED backendVars

Cipher ==
    \/ \E d \in CipherIds, data \in CipherPayloads : SealDrawing(d, data)
    \/ \E d \in CipherIds, key \in Keys : OpenDrawing(d, key)
    \/ \E str \in Names : SealString(str)
    \/ \E key \in Keys : OpenString(key)
    \/ \E d \in CipherIds, how \in {"bytes", "encoding"} :
          CorruptCiphertext(d, how)
    \/ \E d \in CipherIds : TamperIV(d)
    \/ \E how \in {"bytes", "iv", "encoding"} : DamageString(how)

\* the cipher as used by an unlocked session
SpecCipher == InitCipher /\ [][Cipher]_vars

\* ------------------------------------------------- crypto.ts: deriveKey
\* the longest salt, in bytes, a stored salt string is taken to decode to
MaxSaltBytes == 18

\* salt strings as the server can hand them out: the hex of a generated
\* salt, cut short or run on into a longer one (an even number of digits)
SaltHexes ==
    {SubSeq(bytesToHex(SaltValue(n) \o SaltValue(n + 1)), 1, 2 * k) :
        n \in 1..MaxSalts, k \in 0..MaxSaltBytes}

\* hexToBytes of a salt string
DecodeSalt(hex) ==
    /\ last' = [op |-> "hexToBytes", hex |-> hex, bytes |-> hexToBytes(hex)]
    /\ UNCHANGED <<clientVars, idle, serverVars, calls, random>>
    /\ UNCHANGED backendVars

\* deriveKey with the decoded salt
DeriveKey(password) ==
    /\ last.op = "hexToBytes"
    /\ last' = [op |-> "deriveKey", password |-> password,
                salt |-> last.bytes,
                result |-> deriveKey(password, last.bytes)]
    /\ UNCHANGED <<clientVars, idle, serverVars, calls, random>>
    /\ UNCHANGED backendVars

Derive ==
    \/ \E hex \in SaltHexes : DecodeSalt(hex)
    \/ \E password \in Passwords : DeriveKey(password)
SpecDerive == Init /\ [][Derive]_vars

\* ---------------------------------------------------------------- claims
\* a step in which the continuation (or catch) of call c runs
Settles(c) == c \in calls /\ c \notin calls'

\* the record opens under the key
Opens(rec, key) ==
    ~Threw(decryptDrawing(rec.encryptedData, rec.iv, key))

\* the server accepts the password and every stored drawing opens under the
\* key derived from it and the stored salt
ReadableWith(v, ds, password) ==
    /\ v # None
    /\ Val(v).passwordHash = serverHash(hashPassword(password))
    /\ \A d \in DrawingIds :
          ds[d] # None =>
             Opens(Val(ds[d]), deriveKey(password, hexToBytes(Val(v).salt)))

\* C1: when changePassword completes successfully, every drawing stored
\* before it opens under the new key.
C1_RecordsRekeyed ==
    [][\A c \in calls :
          (c.op = "change" /\ c.pc = "put_resp" /\ Settles(c)
              /\ last'.op = "change" /\ last'.result = "ok")
          => \A d \in DrawingIds :
                drawings[d] # None =>
                   /\ drawings'[d] # None
                   /\ Opens(Val(drawings'[d]), c.newKey)]_vars

\* C2: after a run of changePassword that got past the verification of the
\* old password, whether it succeeded or failed, all stored drawings are
\* readable with the old password or all are readable with the new one.
C2_RotationAtomic ==
    [][\A c \in calls :
          (c.op = "change" /\ c.pc \in {"put_sent", "put_resp"} /\ Settles(c))
          => \/ ReadableWith(vault', drawings', c.password)
             \/ ReadableWith(vault', drawings', c.newPassword)]_vars

\* C3: when changePassword fails after the old password was verified, the
\* server still holds the old verification hash and the old salt.
C3_FailureKeepsOldVault ==
    [][\A c \in calls :
          (c.op = "change" /\ c.pc \in {"put_sent", "put_resp"} /\ Settles(c)
              /\ last'.op = "change" /\ last'.result = "error")
          => /\ vault' # None
             /\ Val(vault').passwordHash = serverHash(hashPassword(c.password))
             /\ Val(vault').salt = bytesToHex(c.oldKey.salt)]_vars

\* C4: when unlock's verification is answered, a rejected password makes
\* unlock return false and leaves isUnlocked and sessionKey as they were
\* (Locked stays Locked, without a key); an accepted password makes it
\* return true and leaves the vault Unlocked with the key derived from the
\* entered password and the bytes of the salt in the response.
C4_UnlockOutcome ==
    [][\A c \in calls :
          (c.op = "unlock" /\ c.pc = "resp" /\ Settles(c)
              /\ last'.verify # "failed")
          => IF c.res.success
             THEN /\ last'.result = TRUE
                  /\ isUnlocked'
                  /\ \E n \in 1..MaxSalts :
                        /\ bytesToHex(SaltValue(n)) = Val(c.res.salt)
                        /\ sessionKey' = Some(deriveKey(c.password, SaltValue(n)))
                        /\ salt' = Some(SaltValue(n))
             ELSE /\ last'.result = FALSE
                  /\ isUnlocked' = isUnlocked
                  /\ sessionKey' = sessionKey]_vars

C4_Witness ==
    /\ last.op = "unlock" /\ last.result = TRUE /\ last.verify = "accepted"
    /\ isUnlocked /\ sessionKey # None

\* C5: when the verification request of unlock failed in transport, the
\* caller does not get the incorrect-password outcome.
C5_TransportErrorDistinct ==
    (last.op = "unlock" /\ last.verify = "failed")
    => ~(last.result = FALSE /\ last.error = Some("Incorrect password"))

\* C6: a session key is held if and only if the vault is unlocked.
C6_KeyIffUnlocked == isUnlocked <=> sessionKey # None

\* C7: a session key comes into being only in the continuation of a
\* successful unlock or setup.
C7_KeyOnlyFromUnlockOrSetup ==
    [][(sessionKey = None /\ sessionKey' # None)
          => last'.op \in {"unlock", "setup"}]_vars

\* C8: while the vault is unlocked, the time since the last activity event
\* or entry into Unlocked never exceeds the auto-lock timeout.
C8_AutoLock == isUnlocked => idle <= AUTO_LOCK_TIMEOUT

\* C9: lock discards the session key, leaves the vault locked with no timer
\* armed, and a second lock gives the state a single lock gives.
C9_LockIdempotent ==
    LET once == lock(sessionKey, isUnlocked, autoLockTimer, timerLeft)
        twice == lock(once[1], once[2], once[3], once[4])
    IN /\ once[1] = None /\ once[2] = FALSE /\ once[3] = "null"
       /\ twice = once
       /\ last.op = "lock" =>
             /\ sessionKey = once[1] /\ isUnlocked = once[2]
             /\ autoLockTimer = once[3] /\ timerLeft = once[4]

C9_Witness == last.op = "lock" /\ last.again /\ isSetup /\ salt # None

\* C10: a setup request carries the digest of the password, the hex of the
\* salt generated for it (SALT_LENGTH bytes, not the salt the vault holds)
\* and the hint; the continuation of a successful setup leaves the vault set
\* up and Unlocked, holding the key derived from the password and the bytes
\* of exactly the salt that request carried.
C10_SetupOutcome ==
    [][/\ \A c \in calls' \ calls :
             (c.op = "setup" /\ c.pc = "sent") =>
                /\ ~isSetup
                /\ c.passwordHash = hashPassword(c.password)
                /\ Len(c.salt) = SALT_LENGTH
                /\ c.saltHex = bytesToHex(c.salt)
                /\ \A n \in 1..random.salts : c.salt # SaltValue(n)
                /\ c.hint \in Hints
       /\ \A c \in calls :
             (c.op = "setup" /\ Settles(c) /\ last'.op = "setup"
                 /\ last'.result = "ok")
             => /\ isSetup' /\ isUnlocked'
                /\ last'.persisted = c.saltHex
                /\ salt' = Some(hexToBytes(c.saltHex))
                /\ sessionKey' =
                      Some(deriveKey(c.password, hexToBytes(c.saltHex)))]_vars

C10_Witness ==
    /\ last.op = "setup" /\ last.result = "ok"
    /\ isSetup /\ isUnlocked /\ vault # None
    /\ sessionKey = Some(deriveKey("Correct-Horse1", hexToBytes(Val(vault).salt)))

\* C11: a changePassword whose old password the server rejected settles with
\* an error, leaving sessionKey, salt, isUnlocked and the server's vault
\* record as they were, and a request that replaces the hash and salt is
\* only ever sent by a call whose verification was accepted.
C11_RejectedRotationAborts ==
    [][/\ \A c \in calls :
             (c.op = "change" /\ c.pc = "resp" /\ ~c.res.success)
             => /\ \A d \in calls' :
                      d.op = "change" => (d \in calls /\ d.pc # "put_sent")
                /\ Settles(c) =>
                      /\ last'.op = "change" /\ last'.result = "error"
                      /\ sessionKey' = sessionKey /\ salt' = salt
                      /\ isUnlocked' = isUnlocked /\ vault' = vault
       /\ \A d \in calls' \ calls :
             (d.op = "change" /\ d.pc = "put_sent")
             => \E c \in calls :
                   /\ c.op = "change" /\ c.pc = "resp" /\ c.res.success
                   /\ d.password = c.password]_vars

C11_Witness ==
    /\ last.op = "change" /\ last.result = "error"
    /\ last.message = "Invalid current password"
    /\ sessionKey # None /\ isUnlocked

\* an unlock request c is answered by the server in this step, with d
VerifyAnswers(c, d) ==
    /\ c \in calls /\ c \notin calls' /\ d \in calls' /\ d \notin calls
    /\ c.op = "unlock" /\ c.pc = "sent"
    /\ d.op = "unlock" /\ d.pc = "resp" /\ d.site = c.site

\* C12: when changePassword reports success the server verifies the new
\* password and stores the salt of the new key; the vault record then stays
\* as it is until another rotation commits; an unlock verified against a
\* record that verifies password W succeeds exactly when W was entered (so
\* the old password fails once a different new one is in place), and a
\* successful unlock holds the key derived from the entered password and
\* the stored salt: after the rotation and a lock, the new key.
C12_UnlockAfterRotation ==
    [][/\ \A c \in calls :
             (c.op = "change" /\ c.pc = "put_resp" /\ Settles(c)
                 /\ last'.op = "change" /\ last'.result = "ok")
             => /\ vault' = vault /\ vault # None
                /\ Val(vault).passwordHash
                      = serverHash(hashPassword(c.newPassword))
                /\ deriveKey(c.newPassword, hexToBytes(Val(vault).salt))
                      = c.newKey
                /\ sessionKey' = Some(c.newKey)
       /\ (vault # None /\ vault' # vault)
             => \E c \in calls :
                   c.op = "change" /\ c.pc = "put_sent" /\ c \notin calls'
       /\ \A c \in calls, d \in calls' :
             VerifyAnswers(c, d)
             => /\ \A W \in Passwords :
                      Val(vault).passwordHash = serverHash(hashPassword(W))
                      => (d.res.success <=> c.password = W)
                /\ d.res.success => d.res.salt = Some(Val(vault).salt)
       /\ \A c \in calls :
             (c.op = "unlock" /\ c.pc = "resp" /\ Settles(c)
                 /\ last'.verify = "accepted")
             => sessionKey' =
                   Some(deriveKey(c.password, hexToBytes(Val(c.res.salt))))]_vars

\* unlocked again with the new password, holding the key of the rotation
C12_Witness ==
    /\ last.op = "unlock" /\ last.result = TRUE /\ isUnlocked
    /\ vault # None
    /\ Val(vault).passwordHash = serverHash(hashPassword("New-Password2"))
    /\ sessionKey = Some(deriveKey("New-Password2", SaltValue(2)))
    /\ Val(vault).salt = bytesToHex(SaltValue(2))


\* C13: every request of setup, unlock and changePassword carries, of the
\* password, only its digest (a function of the password alone) next to the
\* salt hex and the hint: the verify request has the one field holding the
\* digest, the setup request digest, salt and hint, the rotation request
\* digest and salt; and the rotation request is the same whatever keys the
\* call holds.
C13_OnlyDigestSent ==
    \A c \in calls :
       LET r == Request(c)
       IN /\ c.op = "setup" =>
                /\ DOMAIN r.body = {"passwordHash", "salt", "hint"}
                /\ r.body.passwordHash = hashPassword(c.password)
                /\ r.body.salt = bytesToHex(c.salt)
                /\ r.body.hint = c.hint
          /\ (c.op \in {"unlock", "change"} /\ c.pc \in {"sent", "resp"}) =>
                /\ DOMAIN r.body = {"password"}
                /\ r.body.password = hashPassword(c.password)
          /\ (c.op = "change" /\ c.pc \in {"put_sent", "put_resp"}) =>
                /\ DOMAIN r.body = {"passwordHash", "salt"}
                /\ r.body.passwordHash = hashPassword(c.newPassword)
                /\ r.body.salt = bytesToHex(c.newSalt)
                /\ \A k1 \in Keys, k2 \in Keys :
                      Request([c EXCEPT !.oldKey = k1, !.newKey = k2]) = r

\* a rotation request is on the wire while the call holds both keys
C13_Witness ==
    \E c \in calls :
       /\ c.op = "change" /\ c.pc = "put_sent"
       /\ c.oldKey \in Keys /\ c.newKey \in Keys /\ c.oldKey # c.newKey

\* C14: for every payload P, password W and salt S, the record that
\* encryptDrawing(P, deriveKey(W, S)) returns opens under deriveKey(W, S)
\* to P again.
C14_RoundTrip ==
    last.op = "encryptDrawing" =>
        /\ ~Threw(last.result)
        /\ decryptDrawing(last.result.encryptedData, last.result.iv,
                          last.key) = last.data

\* a record stored by SealDrawing was sealed and is intact
AsSealed(rec) ==
    /\ "base64" \in DOMAIN rec.encryptedData
    /\ rec.encryptedData.base64.chars.tag = "valid"
    /\ rec.encryptedData.base64.chars.iv = hexToBytes(rec.iv)

\* C15: opening a sealed record or string with any other key of the vault
\* (another password with the same salt, or an earlier password or salt)
\* fails with the authentication error and returns no plaintext.
C15_WrongKeyRejected ==
    [][/\ (last'.op = "encryptDrawing" /\ ~Threw(last'.result)) =>
            \A k \in Keys \ {last'.key} :
               decryptDrawing(last'.result.encryptedData, last'.result.iv, k)
                  = AuthenticationError
       /\ (last.op = "encryptDrawing" /\ last'.op = "decryptDrawing"
             /\ last'.record = last.result /\ last'.key # last.key) =>
            last'.result = AuthenticationError
       /\ (last'.op = "encryptString" /\ last'.damage = "none"
             /\ ~Threw(last'.encrypted)) =>
            \A k \in Keys \ {last'.key} :
               decryptString(last'.encrypted, k) = AuthenticationError
       /\ (last'.op = "decryptString" /\ last'.damage = "none"
             /\ last'.key # last'.sealedWith) =>
            last'.result = AuthenticationError]_vars

\* a sealed record was opened with the key of another password and the
\* same salt, and was refused
C15_Witness ==
    /\ last.op = "decryptDrawing"
    /\ AsSealed(last.record)
    /\ last.key.salt = Val(sessionKey).salt
    /\ last.key.password # Val(sessionKey).password
    /\ last.result = AuthenticationError

\* the IVs handed out so far
UsedIVs == {IVValue(n) : n \in 1..random.ivs}

\* C16: every seal call (encryptDrawing, encryptString) draws one new IV
\* from the generator, whatever its arguments are, and seals with it, so
\* no IV used by an earlier seal call appears again.
C16_FreshIVPerSeal ==
    [][(/\ last' # last
        /\ \/ last'.op = "encryptDrawing"
           \/ last'.op = "encryptString" /\ last'.damage = "none") =>
          /\ random'.ivs = random.ivs + 1
          /\ generateIV \notin UsedIVs
          /\ generateIV \in UsedIVs'
          /\ (last'.op = "encryptDrawing" /\ ~Threw(last'.result)) =>
                /\ hexToBytes(last'.result.iv) = generateIV
                /\ last'.result.encryptedData.base64.chars.iv = generateIV
          /\ (last'.op = "encryptString" /\ ~Threw(last'.encrypted)) =>
                /\ asIV(slice(last'.encrypted.base64.chars.bytes,
                              0, IV_LENGTH)) = generateIV
                /\ last'.encrypted.base64.chars.bytes[IV_LENGTH + 1]
                       .block.iv = generateIV
          /\ \A data \in CipherPayloads, k \in Keys :
                LET sealed == encryptDrawing(data, k)
                IN ~Threw(sealed) =>
                      /\ sealed.iv = bytesToHex(generateIV)
                      /\ sealed.encryptedData.base64.chars.iv = generateIV
          /\ \A str \in Names, k \in Keys :
                LET sealed == encryptString(str, k)
                IN ~Threw(sealed) =>
                      /\ asIV(slice(sealed.base64.chars.bytes,
                                    0, IV_LENGTH)) = generateIV
                      /\ sealed.base64.chars.bytes[IV_LENGTH + 1]
                             .block.iv = generateIV]_vars

\* two seal calls under one key: a stored drawing and a string, with
\* different IVs
C16_Witness ==
    /\ random.ivs >= 2
    /\ last.op = "encryptString" /\ ~Threw(last.encrypted)
    /\ \E d \in CipherIds :
          /\ drawings[d] # None
          /\ AsSealed(Val(drawings[d]))
          /\ Val(drawings[d]).encryptedData.base64.chars.key = last.key
          /\ hexToBytes(Val(drawings[d]).iv)
                # asIV(slice(last.encrypted.base64.chars.bytes,
                             0, IV_LENGTH))

\* C17: a wrong key, a corrupted ciphertext and a tampered IV all make
\* decryptDrawing / decryptString fail with one and the same error, and
\* none of them yields a plaintext.
C17_OneGenericError ==
    /\ \A d \in CipherIds, k \in Keys :
          (/\ drawings[d] # None
           /\ k # Val(sessionKey) \/ ~AsSealed(Val(drawings[d]))) =>
             decryptDrawing(Val(drawings[d]).encryptedData,
                            Val(drawings[d]).iv, k) = AuthenticationError
    /\ (/\ last.op = "decryptDrawing"
        /\ last.key # Val(sessionKey) \/ ~AsSealed(last.record)) =>
          last.result = AuthenticationError
    /\ (/\ last.op = "decryptString"
        /\ last.key # last.sealedWith \/ last.damage # "none") =>
          last.result = AuthenticationError

\* the keys the session and the closures of its calls hold
HeldKeys ==
    (IF sessionKey = None THEN {} ELSE {Val(sessionKey)})
    \cup {c.oldKey : c \in {c \in calls : "oldKey" \in DOMAIN c}}
    \cup {c.newKey : c \in {c \in calls : "newKey" \in DOMAIN c}}

\* C18: every key deriveKey has produced is non-extractable and has
\* exactly the usages encrypt and decrypt: exporting it is refused, and no
\* request of the vault API carries a key or its raw bytes.
C18_KeyNotExportable ==
    /\ \A k \in HeldKeys :
          /\ k.extractable = FALSE
          /\ k.usages = {"encrypt", "decrypt"}
          /\ exportKey(k) = InvalidAccessError
          /\ k = deriveKey(k.password, k.salt)
    /\ \A c \in calls :
          LET body == Request(c).body
          IN /\ body # <<>> =>
                   DOMAIN body \subseteq {"password", "passwordHash", "salt",
                                          "hint"}
             /\ \A k \in HeldKeys \cup Keys :
                   /\ "password" \in DOMAIN body =>
                         body.password \notin {k, exportKey(k)}
                   /\ "passwordHash" \in DOMAIN body =>
                         body.passwordHash \notin {k, exportKey(k)}

\* a rotation request is on the wire while the session holds the old key
\* and the call holds both keys
C18_Witness ==
    /\ sessionKey # None
    /\ exportKey(Val(sessionKey)) = InvalidAccessError
    /\ \E c \in calls :
          /\ c.op = "change" /\ c.pc = "put_sent"
          /\ Val(sessionKey) = c.oldKey
          /\ c.newKey \in HeldKeys

\* C19: while the vault is not unlocked no auto-lock timeout is pending,
\* and at any time at most one is pending, the one autoLockTimer.current
\* refers to.
C19_NoDanglingTimer ==
    /\ ~isUnlocked => timerLeft = <<>>
    /\ Len(timerLeft) <= 1
    /\ autoLockTimer = "live" <=> Len(timerLeft) = 1

\* a later unlocked period, some time into it, with its one timeout pending
C19_Witness ==
    /\ isUnlocked /\ last.op = "unlock"
    /\ autoLockTimer = "live"
    /\ Len(timerLeft) = 1 /\ timerLeft[1] < AUTO_LOCK_TIMEOUT

\* C20: while unlocked, every pending timeout has at least the auto-lock
\* timeout less the time since the last activity event or entry into
\* Unlocked still to run, so none fires before 15 minutes have passed
\* since then; an activity event leaves exactly one full timeout pending.
C20_NeverEarly ==
    [][/\ \A i \in DOMAIN timerLeft' :
            /\ isUnlocked' => timerLeft'[i] + idle' >= AUTO_LOCK_TIMEOUT
            /\ timerLeft'[i] = 0 => idle' >= AUTO_LOCK_TIMEOUT
       /\ (isUnlocked /\ isUnlocked' /\ idle' = 0 /\ last' = last
             /\ calls' = calls) =>
            timerLeft' = <<AUTO_LOCK_TIMEOUT>>]_vars

\* the timeout of a later unlocked period is due, 15 minutes after the
\* period's last activity
C20_Witness ==
    /\ isUnlocked /\ last.op = "unlock"
    /\ TimerDue
    /\ idle = AUTO_LOCK_TIMEOUT

\* C21: a record sealed and stored while a changePassword call is in
\* flight is not left sealed under the pre-rotation key once the rotation
\* has committed: stored after the commit it opens under the new key, and
\* stored before the commit it opens under the new key when the server
\* commits.
C21_WritesSerialized ==
    [][\A c \in calls :
          /\ (c.op = "change" /\ c.pc = "put_resp" /\ c \in calls') =>
                \A d \in DrawingIds :
                   (drawings'[d] # drawings[d] /\ drawings'[d] # None) =>
                      Opens(Val(drawings'[d]), c.newKey)
          /\ (c.op = "change" /\ c.pc = "put_sent" /\ vault' # vault
                /\ last.op = "lockDrawing" /\ last.rotating /\ last.stored
                /\ drawings[last.d] # None) =>
                /\ drawings'[last.d] # None
                /\ Opens(Val(drawings'[last.d]), c.newKey)]_vars

\* C22: a changePassword call made while the vault is not unlocked changes
\* neither the server's verification hash and salt nor the client's
\* sessionKey and salt.
C22_RotationOnlyUnlocked ==
    [][\A c \in calls :
          (c.op = "change" /\ ~c.invokedUnlocked /\ c \notin calls') =>
             /\ vault' = vault
             /\ sessionKey' = sessionKey
             /\ salt' = salt]_vars

C24_SessionKeyIsNewKey ==
    [][\A c \in calls :
          (/\ c.op = "change" /\ c.pc = "put_resp" /\ c.invokedUnlocked
           /\ isUnlocked
           /\ c \notin calls' /\ last'.result = "ok") =>
             /\ sessionKey' = Some(deriveKey(c.newPassword, c.newSalt))
             /\ salt' = Some(c.newSalt)
             /\ isUnlocked']_vars

\* the password was changed in an unlocked vault: the session holds the key
\* of the new password and the new salt
C24_Witness ==
    /\ isUnlocked
    /\ sessionKey = Some(deriveKey("New-Password2", SaltValue(2)))
    /\ salt = Some(SaltValue(2))
    /\ last.op = "change" /\ last.result = "ok"

\* the step ends call c: it leaves the calls in flight and nothing continues it
Ends(c) == c \notin calls' /\ calls' \subseteq calls

\* the step ends call c with success
Succeeds(c) ==
    /\ Ends(c)
    /\ IF c.op = "unlock" THEN last'.result = TRUE ELSE last'.result = "ok"

\* C25: no step of a setup, unlock or changePassword call other than its
\* successful end changes isSetup, isUnlocked, sessionKey or salt: the
\* steps in between, a failure at any of them and a rejected password leave
\* the four as they are, and the successful end sets the fields of the
\* operation in one step.
C25_AllOrNothing ==
    [][\A c \in calls :
          (c.op \in {"setup", "unlock", "change"} /\ c \notin calls') =>
             IF Succeeds(c)
             THEN /\ sessionKey' # None /\ salt' # None
                  /\ c.op \in {"setup", "unlock"} => isSetup' /\ isUnlocked'
                  /\ c.op = "change" => UNCHANGED <<isSetup, isUnlocked>>
             ELSE UNCHANGED <<isSetup, isUnlocked, sessionKey, salt>>]_vars

\* a setup whose response was lost after the server created the record: the
\* call has failed and the session is as before it
C25_Witness ==
    /\ last.op = "setup" /\ last.result = "error"
    /\ vault # None
    /\ ~isSetup /\ ~isUnlocked /\ sessionKey = None /\ salt = None

\* C26: when a status query fails (its request never got an answer), the
\* session does not end up presenting an existing vault as NotSetup:
\* isSetup false with loading finished while the server holds a record.
C26_FailedStatusNotPresentedAsNotSetup ==
    [][\A c \in calls :
          (c.op = "status" /\ c.pc = "sent" /\ Ends(c)) =>
             ~(vault' # None /\ ~isSetup' /\ ~isLoading')]_vars

\* C27: a short string sealed by encryptString carries the IV as the first
\* IV_LENGTH bytes of the combined buffer and the ciphertext as the rest;
\* decryptString reads the buffer the same way, so for every short string
\* and key decryptString(encryptString(s, k), k) = s, and a stored value
\* whose first byte was changed no longer opens.
C27_IVPrefixRoundTrip ==
    [][/\ (/\ last' # last
            /\ last'.op = "encryptString" /\ last'.damage = "none"
            /\ ~Threw(last'.encrypted)) =>
             LET combined == last'.encrypted.base64.chars.bytes
             IN /\ asIV(slice(combined, 0, IV_LENGTH)) = generateIV
                /\ asCiphertext(slice(combined, IV_LENGTH, Len(combined)))
                      = subtleEncrypt(generateIV, last'.key,
                                      encode(last'.str))
                /\ \A str \in Names, k \in Keys :
                      decryptString(encryptString(str, k), k) = str
       /\ (last' # last /\ last'.op = "decryptString") =>
             /\ (last'.damage = "none" /\ last'.key = last'.sealedWith) =>
                   /\ ~Threw(last'.result)
                   /\ last'.result = last'.str
             /\ last'.damage = "iv" => Threw(last'.result)]_vars

\* a sealed string has been opened with the key it was sealed with and has
\* come out as it went in
C27_Witness ==
    /\ last.op = "decryptString"
    /\ last.damage = "none"
    /\ last.key = last.sealedWith
    /\ last.result = last.str
    /\ Len(last.encrypted.base64.chars.bytes) = IV_LENGTH + 1

\* C28: deriveKey fails exactly on a malformed salt: it rejects a salt whose
\* length is not SALT_LENGTH bytes and never fails for one of that length,
\* whatever the password.
C28_DeriveFailsExactlyOnMalformed ==
    last.op = "deriveKey" =>
       (Threw(last.result) <=> Len(last.salt) # SALT_LENGTH)

\* C29: in every reachable state of the session an unlocked vault is a
\* vault that is set up, whatever the order in which the responses of
\* checkVaultStatus, setup and unlock arrive.
C29_UnlockedImpliesSetup == isUnlocked => isSetup

\* C30: whenever a session key is held, the salt the context exposes is the
\* salt that key was derived from, whatever the order in which the
\* responses of checkVaultStatus, unlock, setup and changePassword arrive.
C30_SaltIsTheKeysSalt ==
    sessionKey # None => salt = Some(Val(sessionKey).salt)

\* ------------------------------------------------- backend: users, sessions
\* bounds of the backend model
MaxUsers == 2
MaxSessionRows == 2
MaxHandlers == 2
MaxTime == 3
MaxIds == 2
\* JWT_EXPIRES_IN, in ticks of the clock
JWT_EXPIRES_IN == 2

Emails == {"ada@example.com", "bob@example.com"}

\* ids are never handed out twice (cuid)
freshUserId == issued.userIds + 1
freshSessionId == issued.sessionIds + 1

UserById(id) == {u \in users : u.id = id}
UserByEmail(email) == {u \in users : u.email = email}
SessionById(id) == {s \in sessions : s.id = id}

\* a handler can be started / a row can be added within the bounds
CanHandle == Cardinality(handlers) < MaxHandlers
Proceed(h, g) == (handlers \ {h}) \cup {g}
Respond(h) == handlers \ {h}

backendFrame == UNCHANGED <<vaultVars, csrfTokenStore, auth>>

\* the clock
TickClock ==
    /\ now < MaxTime
    /\ now' = now + 1
    /\ UNCHANGED <<users, sessions, handlers, issued>>
    /\ backendFrame

\* jwt.verify: null for a token whose exp has been reached
verifyToken(token) == IF now >= token.exp THEN None ELSE Some(token)

\* prisma.session.delete(...).catch(() => {})
invalidateSession(rows, sessionId) == {s \in rows : s.id # sessionId}
\* prisma.session.deleteMany({ where: { userId } })
invalidateAllUserSessions(rows, userId) == {s \in rows : s.userId # userId}

\* createSession, first await: the row, with expiresAt from Date.now(); the
\* insert fails when the user is gone (foreign key)
CreateSessionRow(h) ==
    /\ h.pc = "createSession"
    /\ IF UserById(h.userId) = {}
       THEN /\ handlers' = Respond(h)
            /\ UNCHANGED <<sessions, issued>>
       ELSE /\ Cardinality(sessions) < MaxSessionRows
            /\ issued.sessionIds < MaxIds
            /\ sessions' = sessions \cup
                  {[id |-> freshSessionId, userId |-> h.userId,
                    expiresAt |-> now + JWT_EXPIRES_IN]}
            /\ issued' = [issued EXCEPT !.sessionIds = freshSessionId]
            /\ handlers' = Proceed(h, [h EXCEPT !.pc = "generateToken",
                                              !.sessionId = freshSessionId])
    /\ UNCHANGED <<users, now>>
    /\ backendFrame

\* createSession, after the row: the user is read again and the JWT signed
\* with iat = now; the response carries the token
GenerateToken(h) ==
    /\ h.pc = "generateToken"
    /\ handlers' = Respond(h)
    /\ issued' = IF UserById(h.userId) = {} THEN issued
                 ELSE [issued EXCEPT !.jwts = @ \cup
                          {[sessionId |-> h.sessionId, userId |-> h.userId,
                            exp |-> now + JWT_EXPIRES_IN]}]
    /\ UNCHANGED <<users, sessions, now>>
    /\ backendFrame

\* POST /auth/register: the email is looked up
RegisterRequest(email) ==
    /\ CanHandle
    /\ \A h \in handlers : h.op = "register" => h.email # email
    /\ UserByEmail(email) = {}
    /\ handlers' = handlers \cup
          {[op |-> "register", pc |-> "count", email |-> email,
            userId |-> 0, sessionId |-> 0, isFirstUser |-> FALSE]}
    /\ UNCHANGED <<users, sessions, now, issued>>
    /\ backendFrame

\* const userCount = await prisma.user.count()
RegisterCount(h) ==
    /\ h.op = "register" /\ h.pc = "count"
    /\ handlers' = Proceed(h, [h EXCEPT !.pc = "create",
                                      !.isFirstUser = (users = {})])
    /\ UNCHANGED <<users, sessions, now, issued>>
    /\ backendFrame

\* prisma.user.create with the role chosen from the count; the unique index
\* on email makes a second row with the email fail
RegisterCreate(h) ==
    /\ h.op = "register" /\ h.pc = "create"
    /\ IF UserByEmail(h.email) # {}
       THEN /\ handlers' = Respond(h)
            /\ UNCHANGED <<users, issued>>
       ELSE /\ Cardinality(users) < MaxUsers
            /\ issued.userIds < MaxIds
            /\ users' = users \cup
                  {[id |-> freshUserId, email |-> h.email,
                    role |-> IF h.isFirstUser THEN "ADMIN" ELSE "USER",
                    isActive |-> TRUE, via |-> "register"]}
            /\ issued' = [issued EXCEPT !.userIds = freshUserId]
            /\ handlers' = Proceed(h, [h EXCEPT !.pc = "createSession",
                                              !.userId = freshUserId])
    /\ UNCHANGED <<sessions, now>>
    /\ backendFrame

\* POST /auth/login: the user is found and active (the password is taken
\* to be the right one)
LoginRequest(email) ==
    /\ CanHandle
    /\ \E u \in UserByEmail(email) :
          /\ u.isActive
          /\ handlers' = handlers \cup
                {[op |-> "login", pc |-> "createSession", email |-> email,
                  userId |-> u.id, sessionId |-> 0, isFirstUser |-> FALSE]}
    /\ UNCHANGED <<users, sessions, now, issued>>
    /\ backendFrame

\* ------------------------------------------------ backend: authenticate
\* what the backend answers is kept in last
respondFrame ==
    UNCHANGED <<clientVars, idle, serverVars, calls, random, csrfTokenStore,
                auth>>

\* the authenticate middleware on a bearer token: the status it ends with,
\* the Session table it leaves, and req.user / req.sessionId when it goes on
authenticate(token) ==
    IF verifyToken(token) = None
    THEN [status |-> 401, sessions |-> sessions]
    ELSE IF SessionById(token.sessionId) = {}
    THEN [status |-> 401, sessions |-> sessions]
    ELSE LET session == CHOOSE x \in SessionById(token.sessionId) : TRUE
             user == CHOOSE u \in UserById(session.userId) : TRUE
         IN IF session.expiresAt < now
            THEN [status |-> 401,
                  sessions |-> invalidateSession(sessions, session.id)]
            ELSE IF ~user.isActive
            THEN [status |-> 403, sessions |-> sessions]
            ELSE [status |-> 200, sessions |-> sessions,
                  user |-> user, sessionId |-> session.id]

\* requireAdmin on req.user
requireAdmin(user) == IF user.role # "ADMIN" THEN 403 ELSE 200

AuthRoutes == {"logout", "logout-all", "revoke"}
AdminRoutes == {"updateUser", "deleteUser", "reset-password",
                "admin-logout-all"}
\* the bodies of PUT /admin/users/:id that matter here
Updates == {[role |-> "USER", isActive |-> "undefined"],
            [role |-> "ADMIN", isActive |-> "undefined"],
            [role |-> "undefined", isActive |-> "false"]}
NoBody == [role |-> "undefined", isActive |-> "undefined"]

\* a request with a bearer token reaches a route behind authenticate (and,
\* for the admin routes, requireAdmin); target is the :id of the route
AuthenticatedRequest(token, route, target, body) ==
    /\ CanHandle
    /\ LET r == authenticate(token)
           status == IF r.status # 200 THEN r.status
                     ELSE IF route \notin AdminRoutes THEN 200
                     ELSE IF requireAdmin(r.user) # 200 THEN 403
                     ELSE IF route = "deleteUser" /\ r.user.id = target
                     THEN 400
                     ELSE 200
       IN /\ sessions' = r.sessions
          /\ handlers' =
                IF status = 200
                THEN handlers \cup
                       {[op |-> route, pc |-> "route",
                         user |-> [id |-> r.user.id],
                         sessionId |-> r.sessionId, target |-> target,
                         body |-> body,
                         existingUser |-> [id |-> 0, role |-> "none"]]}
                ELSE handlers
    /\ UNCHANGED <<users, now, issued, last>>
    /\ respondFrame

\* ------------------------------------------------ backend: /auth routes
Answer(h, status) ==
    /\ handlers' = Respond(h)
    /\ last' = [op |-> h.op, status |-> status]

\* POST /auth/logout
Logout(h) ==
    /\ h.op = "logout" /\ h.pc = "route"
    /\ sessions' = invalidateSession(sessions, h.sessionId)
    /\ Answer(h, 200)
    /\ UNCHANGED <<users, now, issued>>
    /\ respondFrame

\* POST /auth/logout-all
LogoutAll(h) ==
    /\ h.op = "logout-all" /\ h.pc = "route"
    /\ sessions' = invalidateAllUserSessions(sessions, h.user.id)
    /\ Answer(h, 200)
    /\ UNCHANGED <<users, now, issued>>
    /\ respondFrame

\* a faulty lookup that leaves out the userId of the requester
RevokeFindAnyOwner(h) ==
    /\ h.op = "revoke" /\ h.pc = "route"
    /\ IF {s \in sessions : s.id = h.target} = {}
       THEN /\ handlers' = Respond(h)
            /\ last' = [op |-> h.op, status |-> 404, target |-> h.target,
                        user |-> h.user.id]
       ELSE /\ handlers' = Proceed(h, [h EXCEPT !.pc = "invalidate"])
            /\ UNCHANGED last
    /\ UNCHANGED <<users, sessions, now, issued>>
    /\ respondFrame

\* DELETE /auth/sessions/:id, up to the findFirst on id and userId
RevokeFind(h) ==
    /\ h.op = "revoke" /\ h.pc = "route"
    /\ IF {s \in sessions : s.id = h.target /\ s.userId = h.user.id} = {}
       THEN /\ handlers' = Respond(h)
            /\ last' = [op |-> h.op, status |-> 404, target |-> h.target,
                        user |-> h.user.id]
       ELSE /\ handlers' = Proceed(h, [h EXCEPT !.pc = "invalidate"])
            /\ UNCHANGED last
    /\ UNCHANGED <<users, sessions, now, issued>>
    /\ respondFrame

\* DELETE /auth/sessions/:id, the invalidateSession after the lookup
RevokeInvalidate(h) ==
    /\ h.op = "revoke" /\ h.pc = "invalidate"
    /\ sessions' = invalidateSession(sessions, h.target)
    /\ Answer(h, 200)
    /\ UNCHANGED <<users, now, issued>>
    /\ respondFrame

\* ------------------------------------------------ backend: /admin routes
adminCount == Cardinality({u \in users : u.role = "ADMIN"})
activeAdminCount ==
    Cardinality({u \in users : u.role = "ADMIN" /\ u.isActive})

\* the step a PUT /admin/users/:id goes to after the guards up to 'from'
AfterGuard(h, existing, from) ==
    IF /\ from = "find"
       /\ h.body.role = "USER" /\ existing.role = "ADMIN"
    THEN "countAdmins"
    ELSE IF h.body.isActive = "false" /\ existing.role = "ADMIN"
    THEN IF from = "countActive" THEN "update" ELSE "countActive"
    ELSE "update"

\* the findUnique of an admin route on its :id
AdminFind(h) ==
    /\ h.op \in AdminRoutes /\ h.pc = "route"
    /\ IF UserById(h.target) = {}
       THEN Answer(h, 404)
       ELSE LET found == CHOOSE u \in UserById(h.target) : TRUE
                existing == [id |-> found.id, role |-> found.role]
                pc == CASE h.op = "updateUser" ->
                              AfterGuard(h, existing, "find")
                        [] h.op = "deleteUser" ->
                              IF existing.role = "ADMIN" THEN "countAdmins"
                              ELSE "delete"
                        [] OTHER -> "invalidateAll"
            IN /\ handlers' = Proceed(h, [h EXCEPT !.pc = pc,
                                                   !.existingUser = existing])
               /\ UNCHANGED last
    /\ UNCHANGED <<users, sessions, now, issued>>
    /\ respondFrame

\* the guard on the number of admins, of PUT (demotion) and of DELETE
CountAdmins(h) ==
    /\ h.op \in {"updateUser", "deleteUser"} /\ h.pc = "countAdmins"
    /\ IF adminCount <= 1
       THEN Answer(h, 400)
       ELSE /\ handlers' =
                 Proceed(h, [h EXCEPT !.pc =
                     IF h.op = "deleteUser" THEN "delete"
                     ELSE AfterGuard(h, h.existingUser, "countAdmins")])
            /\ UNCHANGED last
    /\ UNCHANGED <<users, sessions, now, issued>>
    /\ respondFrame

\* the guard on the number of active admins, of PUT (deactivation)
CountActiveAdmins(h) ==
    /\ h.op = "updateUser" /\ h.pc = "countActive"
    /\ IF activeAdminCount <= 1
       THEN Answer(h, 400)
       ELSE /\ handlers' = Proceed(h, [h EXCEPT !.pc = "update"])
            /\ UNCHANGED last
    /\ UNCHANGED <<users, sessions, now, issued>>
    /\ respondFrame

ApplyUpdate(u, body) ==
    [u EXCEPT !.role = IF body.role = "undefined" THEN @ ELSE body.role,
              !.isActive = CASE body.isActive = "true" -> TRUE
                             [] body.isActive = "false" -> FALSE
                             [] OTHER -> @]

\* the prisma.user.update of PUT /admin/users/:id
UpdateUser(h) ==
    /\ h.op = "updateUser" /\ h.pc = "update"
    /\ IF UserById(h.target) = {}
       THEN /\ Answer(h, 500)
            /\ UNCHANGED users
       ELSE /\ users' = {IF u.id = h.target THEN ApplyUpdate(u, h.body)
                         ELSE u : u \in users}
            /\ IF h.body.isActive = "false"
               THEN /\ handlers' =
                         Proceed(h, [h EXCEPT !.pc = "invalidateAll"])
                    /\ UNCHANGED last
               ELSE Answer(h, 200)
    /\ UNCHANGED <<sessions, now, issued>>
    /\ respondFrame

\* the prisma.user.delete of DELETE /admin/users/:id; sessions cascade
DeleteUser(h) ==
    /\ h.op = "deleteUser" /\ h.pc = "delete"
    /\ IF UserById(h.target) = {}
       THEN /\ Answer(h, 500)
            /\ UNCHANGED <<users, sessions>>
       ELSE /\ users' = users \ UserById(h.target)
            /\ sessions' = invalidateAllUserSessions(sessions, h.target)
            /\ Answer(h, 200)
    /\ UNCHANGED <<now, issued>>
    /\ respondFrame

\* invalidateAllUserSessions(id) of deactivation, reset-password and the
\* admin logout-all
AdminInvalidateAll(h) ==
    /\ h.op \in AdminRoutes /\ h.pc = "invalidateAll"
    /\ sessions' = invalidateAllUserSessions(sessions, h.target)
    /\ Answer(h, 200)
    /\ UNCHANGED <<users, now, issued>>
    /\ respondFrame

\* ------------------------------------------------ backend: specifications
Accounts ==
    \/ \E email \in Emails : RegisterRequest(email)
    \/ \E h \in handlers : RegisterCount(h)
    \/ \E h \in handlers : RegisterCreate(h)
    \/ \E email \in Emails : LoginRequest(email)
    \/ \E h \in handlers : CreateSessionRow(h)
    \/ \E h \in handlers : GenerateToken(h)

BodiesOf(route) == IF route = "updateUser" THEN Updates ELSE {NoBody}
TargetsOf(route) ==
    CASE route \in {"logout", "logout-all"} -> {0}
      [] route = "revoke" -> 1..issued.sessionIds
      [] OTHER -> 1..issued.userIds

Requests(routes) ==
    \E token \in issued.jwts, route \in routes :
       \E target \in TargetsOf(route), body \in BodiesOf(route) :
          AuthenticatedRequest(token, route, target, body)

AuthSteps ==
    \/ \E h \in handlers : Logout(h)
    \/ \E h \in handlers : LogoutAll(h)
    \/ \E h \in handlers : RevokeFind(h)
    \/ \E h \in handlers : RevokeInvalidate(h)

AdminSteps ==
    \/ \E h \in handlers : AdminFind(h)
    \/ \E h \in handlers : CountAdmins(h)
    \/ \E h \in handlers : CountActiveAdmins(h)
    \/ \E h \in handlers : UpdateUser(h)
    \/ \E h \in handlers : DeleteUser(h)
    \/ \E h \in handlers : AdminInvalidateAll(h)

\* sessions over their life: issued, used, invalidated by their user,
\* expired
NextAuth ==
    \/ Accounts
    \/ TickClock
    \/ Requests(AuthRoutes)
    \/ AuthSteps

SpecAuth == Init /\ [][NextAuth]_vars

\* the sessions of the accounts under DELETE /auth/sessions/:id alone
NextRevoke ==
    \/ Accounts
    \/ Requests({"revoke"})
    \/ \E h \in handlers : RevokeFind(h)
    \/ \E h \in handlers : RevokeInvalidate(h)

SpecRevoke == Init /\ [][NextRevoke]_vars

\* the accounts under the admin routes
NextAdmin ==
    \/ Accounts
    \/ Requests(AdminRoutes)
    \/ AdminSteps

SpecAdmin == Init /\ [][NextAdmin]_vars

\* ------------------------------------------------ backend: /setup/admin
\* POST /setup/admin arrives
SetupAdminRequest(email) ==
    /\ CanHandle
    /\ \A h \in handlers : h.op = "setup" => h.email # email
    /\ handlers' = handlers \cup
          {[op |-> "setup", pc |-> "count", email |-> email,
            userId |-> 0, sessionId |-> 0, isFirstUser |-> FALSE]}
    /\ UNCHANGED <<users, sessions, now, issued>>
    /\ backendFrame

\* const userCount = await prisma.user.count(); 400 when a user exists
SetupAdminCount(h) ==
    /\ h.op = "setup" /\ h.pc = "count"
    /\ IF Cardinality(users) > 0
       THEN Answer(h, 400)
       ELSE /\ handlers' = Proceed(h, [h EXCEPT !.pc = "create"])
            /\ UNCHANGED last
    /\ UNCHANGED <<users, sessions, now, issued>>
    /\ respondFrame

\* the lookups of email and username, then prisma.user.create with role
\* ADMIN
SetupAdminCreate(h) ==
    /\ h.op = "setup" /\ h.pc = "create"
    /\ IF UserByEmail(h.email) # {}
       THEN /\ Answer(h, 409)
            /\ UNCHANGED <<users, issued>>
       ELSE /\ Cardinality(users) < MaxUsers
            /\ issued.userIds < MaxIds
            /\ users' = users \cup
                  {[id |-> freshUserId, email |-> h.email, role |-> "ADMIN",
                    isActive |-> TRUE, via |-> "setup"]}
            /\ issued' = [issued EXCEPT !.userIds = freshUserId]
            /\ handlers' = Proceed(h, [h EXCEPT !.pc = "createSession",
                                              !.userId = freshUserId])
            /\ UNCHANGED last
    /\ UNCHANGED <<sessions, now>>
    /\ respondFrame

\* the first-run setup next to registration and login
NextSetup ==
    \/ \E email \in Emails : SetupAdminRequest(email)
    \/ \E h \in handlers : SetupAdminCount(h)
    \/ \E h \in handlers : SetupAdminCreate(h)
    \/ Accounts

SpecSetup == Init /\ [][NextSetup]_vars

\* ------------------------------------------------ backend: CSRF tokens
\* MAX_STORE_SIZE and CSRF_TOKEN_EXPIRY_MS, scaled down
MAX_STORE_SIZE == 2
CSRF_TOKEN_EXPIRY_MS == 1
MaxCsrfTokens == 4
ClientIds == {"", "a", "b"}

\* csrfTokenStore is a Map: a sequence of entries in the order their keys
\* were first inserted
StoreIndex(clientId) ==
    {i \in DOMAIN csrfTokenStore : csrfTokenStore[i].clientId = clientId}
\* Map.prototype.delete
MapDelete(map, clientId) ==
    SelectSeq(map, LAMBDA e : e.clientId # clientId)
\* Map.prototype.set: the value of a key that is present is replaced where
\* it stands, a new key goes to the end
MapSet(map, entry) ==
    IF \E i \in DOMAIN map : map[i].clientId = entry.clientId
    THEN [i \in DOMAIN map |->
            IF map[i].clientId = entry.clientId THEN entry ELSE map[i]]
    ELSE Append(map, entry)

\* generateCsrfToken: random bytes no earlier token had; the empty sequence
\* is the empty string
generateCsrfToken == <<Cardinality(issued.csrf) + 1>>

\* the store after the eviction at the head of createCsrfToken
EvictIfFull ==
    IF Len(csrfTokenStore) >= MAX_STORE_SIZE
    THEN LET firstKey == csrfTokenStore[1].clientId
         IN IF firstKey # "" THEN MapDelete(csrfTokenStore, firstKey)
            ELSE csrfTokenStore
    ELSE csrfTokenStore

\* a createCsrfToken that keeps an earlier token of the client
createCsrfTokenKeepsOld(clientId) ==
    IF StoreIndex(clientId) # {} THEN csrfTokenStore
    ELSE MapSet(EvictIfFull,
                [clientId |-> clientId, token |-> generateCsrfToken,
                 expiresAt |-> now + CSRF_TOKEN_EXPIRY_MS])

\* the store createCsrfToken(clientId) leaves
createCsrfToken(clientId) ==
    MapSet(EvictIfFull,
           [clientId |-> clientId, token |-> generateCsrfToken,
            expiresAt |-> now + CSRF_TOKEN_EXPIRY_MS])

\* a validateCsrfToken that leaves out the check of the expiry time
validateCsrfTokenNoExpiry(clientId, token) ==
    IF token = <<>>
    THEN [result |-> FALSE, store |-> csrfTokenStore]
    ELSE IF StoreIndex(clientId) = {}
    THEN [result |-> FALSE, store |-> csrfTokenStore]
    ELSE LET stored == csrfTokenStore[CHOOSE i \in StoreIndex(clientId) : TRUE]
         IN [result |-> stored.token = token, store |-> csrfTokenStore]

\* validateCsrfToken: what it returns and the store it leaves
validateCsrfToken(clientId, token) ==
    IF token = <<>>
    THEN [result |-> FALSE, store |-> csrfTokenStore]
    ELSE IF StoreIndex(clientId) = {}
    THEN [result |-> FALSE, store |-> csrfTokenStore]
    ELSE LET stored == csrfTokenStore[CHOOSE i \in StoreIndex(clientId) : TRUE]
         IN IF now > stored.expiresAt
            THEN [result |-> FALSE,
                  store |-> MapDelete(csrfTokenStore, clientId)]
            ELSE IF Len(stored.token) # Len(token)
            THEN [result |-> FALSE, store |-> csrfTokenStore]
            ELSE [result |-> stored.token = token, store |-> csrfTokenStore]

csrfFrame ==
    UNCHANGED <<vaultVars, users, sessions, now, handlers, auth>>

CreateCsrfToken(clientId) ==
    /\ Cardinality(issued.csrf) < MaxCsrfTokens
    /\ csrfTokenStore' = createCsrfToken(clientId)
    /\ issued' = [issued EXCEPT !.csrf = @ \cup
                     {[clientId |-> clientId, token |-> generateCsrfToken,
                       revoked |-> FALSE]}]
    /\ csrfFrame

\* a call of validateCsrfToken; what it returns is not kept
ValidateCsrfToken(clientId, token) ==
    /\ csrfTokenStore' = validateCsrfToken(clientId, token).store
    /\ UNCHANGED issued
    /\ csrfFrame

\* revokeCsrfToken; the tokens issued to the client so far are marked
RevokeCsrfToken(clientId) ==
    /\ csrfTokenStore' = MapDelete(csrfTokenStore, clientId)
    /\ issued' = [issued EXCEPT !.csrf =
                     {IF it.clientId = clientId
                      THEN [it EXCEPT !.revoked = TRUE] ELSE it : it \in @}]
    /\ csrfFrame

\* the setInterval callback that drops the expired entries
CleanupCsrfTokens ==
    /\ csrfTokenStore' =
          SelectSeq(csrfTokenStore, LAMBDA e : ~(now > e.expiresAt))
    /\ UNCHANGED issued
    /\ csrfFrame

\* the tokens a caller can present: the empty string and the issued ones
CsrfTokens == {<<>>} \cup {it.token : it \in issued.csrf}

NextCsrf ==
    \/ \E clientId \in ClientIds : CreateCsrfToken(clientId)
    \/ \E clientId \in ClientIds, token \in CsrfTokens :
          ValidateCsrfToken(clientId, token)
    \/ \E clientId \in ClientIds : RevokeCsrfToken(clientId)
    \/ CleanupCsrfTokens
    \/ TickClock

SpecCsrf == Init /\ [][NextCsrf]_vars

\* ------------------------------------------------ frontend: AuthContext
MaxPending == 2
AuthTokens == {"token-1", "token-2"}

authFrame ==
    UNCHANGED <<clientVars, idle, serverVars, calls, random, users, sessions,
                now, handlers, issued, csrfTokenStore>>

\* the state every branch that ends a session sets
SignedOut ==
    [user |-> None, token |-> None, isAuthenticated |-> FALSE,
     isLoading |-> FALSE]

\* the page is loaded again: the provider and the api module start anew,
\* localStorage stays
Reload ==
    /\ auth.initAuth # "todo"
    /\ auth' = [auth EXCEPT !.state = [user |-> None, token |-> None,
                                       isAuthenticated |-> FALSE,
                                       isLoading |-> TRUE],
                            !.Authorization = None,
                            !.initAuth = "todo", !.pending = {}]
    /\ UNCHANGED last
    /\ authFrame

\* the initAuth effect up to its await
InitAuth ==
    /\ auth.initAuth = "todo"
    /\ auth' = IF /\ auth.localStorage.token # None
                  /\ auth.localStorage.user # None
               THEN [auth EXCEPT !.Authorization = auth.localStorage.token,
                                 !.initAuth = "running"]
               ELSE [auth EXCEPT !.state.isLoading = FALSE,
                                 !.initAuth = "done"]
    /\ UNCHANGED last
    /\ authFrame

\* GET /auth/me answers (ok) or fails
InitAuthResponse(ok) ==
    /\ auth.initAuth = "running"
    /\ auth' = IF ok
               THEN [auth EXCEPT !.state = [user |-> auth.localStorage.user,
                                            token |-> auth.localStorage.token,
                                            isAuthenticated |-> TRUE,
                                            isLoading |-> FALSE],
                                 !.initAuth = "done"]
               ELSE [auth EXCEPT !.localStorage =
                                     [token |-> None, user |-> None],
                                 !.Authorization = None,
                                 !.state = SignedOut,
                                 !.initAuth = "done"]
    /\ UNCHANGED last
    /\ authFrame

\* login or register is called: the POST is sent
LoginCall(op, email) ==
    /\ auth.initAuth # "todo"
    /\ Cardinality(auth.pending) < MaxPending
    /\ auth' = [auth EXCEPT !.pending = @ \cup {[op |-> op, email |-> email]}]
    /\ UNCHANGED last
    /\ authFrame

\* the POST of login or register is answered with a user and a token, or
\* fails and the call throws
LoginResponse(c, ok, token) ==
    /\ c \in auth.pending /\ c.op \in {"login", "register"}
    /\ auth' = IF ok
               THEN [auth EXCEPT !.localStorage = [token |-> Some(token),
                                                  user |-> Some(c.email)],
                                 !.Authorization = Some(token),
                                 !.state = [user |-> Some(c.email),
                                            token |-> Some(token),
                                            isAuthenticated |-> TRUE,
                                            isLoading |-> FALSE],
                                 !.pending = @ \ {c}]
               ELSE [auth EXCEPT !.pending = @ \ {c}]
    /\ UNCHANGED last
    /\ authFrame

\* logout is called: POST /auth/logout is sent
LogoutCall ==
    /\ auth.initAuth # "todo"
    /\ Cardinality(auth.pending) < MaxPending
    /\ auth' = [auth EXCEPT !.pending = @ \cup {[op |-> "logout", email |-> ""]}]
    /\ UNCHANGED last
    /\ authFrame

\* a logout that forgets the session only when the server has answered
LogoutResponseOnlyOnSuccess(c, ok) ==
    /\ c \in auth.pending /\ c.op = "logout"
    /\ auth' = IF ok
               THEN [auth EXCEPT !.localStorage =
                                     [token |-> None, user |-> None],
                                 !.Authorization = None,
                                 !.state = SignedOut,
                                 !.pending = @ \ {c}]
               ELSE [auth EXCEPT !.pending = @ \ {c}]
    /\ last' = [op |-> "logout", ok |-> ok,
                wasAuthenticated |-> auth.state.isAuthenticated]
    /\ authFrame

\* the POST of logout is answered (ok) or fails and the error is caught:
\* what follows the try is the same
LogoutResponse(c, ok) ==
    /\ c \in auth.pending /\ c.op = "logout"
    /\ auth' = [auth EXCEPT !.localStorage = [token |-> None, user |-> None],
                            !.Authorization = None,
                            !.state = SignedOut,
                            !.pending = @ \ {c}]
    /\ last' = [op |-> "logout", ok |-> ok,
                wasAuthenticated |-> auth.state.isAuthenticated]
    /\ authFrame

NextLogout ==
    \/ Reload
    \/ InitAuth
    \/ \E ok \in BOOLEAN : InitAuthResponse(ok)
    \/ \E op \in {"login", "register"}, email \in Emails : LoginCall(op, email)
    \/ \E c \in auth.pending, ok \in BOOLEAN, token \in AuthTokens :
          LoginResponse(c, ok, token)
    \/ LogoutCall
    \/ \E c \in auth.pending, ok \in BOOLEAN : LogoutResponse(c, ok)

SpecLogout == Init /\ [][NextLogout]_vars

\* ------------------------------------------------ claims on the backend
\* C31: a request that carries the token of a session whose expiry time has
\* passed is not authenticated, and the first such request deletes the
\* session row.
C31_ExpiredSessionDeletedOnFirstUse ==
    \A token \in issued.jwts :
       \A session \in SessionById(token.sessionId) :
          session.expiresAt < now =>
             /\ authenticate(token).status # 200
             /\ session \notin authenticate(token).sessions

\* C32: no step of an admin user update or deletion takes away the last
\* active user with role ADMIN.
C32_AnActiveAdminRemains ==
    [][activeAdminCount >= 1 => activeAdminCount' >= 1]_vars

\* C33: at most one account is ever created through POST /setup/admin.
C33_AtMostOneSetupAccount ==
    Cardinality({u \in users : u.via = "setup"}) <= 1

\* C34: a user registered when at least one user already exists gets role
\* USER.
C34_LaterRegistrationsAreUsers ==
    [][\A u \in users' \ users :
          (u.via = "register" /\ users # {}) => u.role = "USER"]_vars

\* C35: a DELETE /auth/sessions/:id handler deletes no session of another
\* user, and when the id names a session of another user its lookup ends
\* the request with 404 and leaves the Session table as it is.
C35_RevokesOnlyOwnSession ==
    [][\A h \in handlers \ handlers' :
          h.op = "revoke" =>
             /\ \A s \in sessions \ sessions' : s.userId = h.user.id
             /\ (/\ h.pc = "route"
                 /\ \E s \in SessionById(h.target) : s.userId # h.user.id)
                => /\ last'.op = "revoke" /\ last'.status = 404
                   /\ sessions' = sessions
                   /\ handlers' = handlers \ {h}]_vars

\* a request for the session of another user was answered 404 and that
\* session is still there
C35_Witness ==
    /\ last.op = "revoke" /\ last.status = 404
    /\ \E s \in sessions : s.id = last.target /\ s.userId # last.user

\* C36 as stated: validateCsrfToken(clientId, token) returns true exactly
\* when the store holds an entry for clientId with that token whose expiry
\* time has not passed, and for an expired entry it returns false and
\* removes the entry.
C36_ValidateAsStated ==
    \A clientId \in ClientIds, token \in CsrfTokens :
       LET v == validateCsrfToken(clientId, token)
       IN /\ v.result =
               (\E i \in StoreIndex(clientId) :
                   /\ csrfTokenStore[i].token = token
                   /\ ~(now > csrfTokenStore[i].expiresAt))
          /\ (\E i \in StoreIndex(clientId) :
                 now > csrfTokenStore[i].expiresAt)
             => /\ v.result = FALSE
                /\ v.store = MapDelete(csrfTokenStore, clientId)

\* C36 amended: as stated, except that the expired entry is removed only
\* when the token presented is not empty; with an empty token the call
\* returns false and leaves the store as it is.
C36_ValidateAmended ==
    \A clientId \in ClientIds, token \in CsrfTokens :
       LET v == validateCsrfToken(clientId, token)
       IN /\ v.result =
               (\E i \in StoreIndex(clientId) :
                   /\ csrfTokenStore[i].token = token
                   /\ ~(now > csrfTokenStore[i].expiresAt))
          /\ (/\ token # <<>>
              /\ \E i \in StoreIndex(clientId) :
                    now > csrfTokenStore[i].expiresAt)
             => /\ v.result = FALSE
                /\ v.store = MapDelete(csrfTokenStore, clientId)
          /\ token = <<>> => v.store = csrfTokenStore
          /\ v.result => v.store = csrfTokenStore

\* an entry has expired, and presenting its own token removes it
C36_Witness ==
    \E i \in DOMAIN csrfTokenStore :
       /\ now > csrfTokenStore[i].expiresAt
       /\ validateCsrfToken(csrfTokenStore[i].clientId,
                            csrfTokenStore[i].token).store
             = MapDelete(csrfTokenStore, csrfTokenStore[i].clientId)
       /\ Len(csrfTokenStore) > 1

\* C37: a token that validates for its client is the newest token issued to
\* that client (tokens are numbered in the order they were issued), and no
\* revokeCsrfToken of the client came after it was issued.
C37_OnlyNewestUnrevokedValidates ==
    \A it \in issued.csrf :
       validateCsrfToken(it.clientId, it.token).result =>
          /\ \A other \in issued.csrf :
                other.clientId = it.clientId =>
                   other.token[1] <= it.token[1]
          /\ ~it.revoked

\* a client whose earlier token was revoked holds a newer token that
\* validates
C37_Witness ==
    \E it \in issued.csrf, older \in issued.csrf :
       /\ it.clientId = older.clientId /\ older.token[1] < it.token[1]
       /\ older.revoked
       /\ validateCsrfToken(it.clientId, it.token).result

\* C38: the store never holds more than MAX_STORE_SIZE entries, and a
\* createCsrfToken on a full store removes the entry that stands first in
\* the Map, the oldest one.
C38_StoreBoundedOldestEvicted ==
    [][/\ Len(csrfTokenStore') <= MAX_STORE_SIZE
       /\ (/\ Cardinality(issued.csrf') > Cardinality(issued.csrf)
           /\ Len(csrfTokenStore) >= MAX_STORE_SIZE)
          => \A i \in DOMAIN csrfTokenStore' :
                csrfTokenStore'[i] # csrfTokenStore[1]]_vars

\* C39: when the request of a logout has been answered or has failed, the
\* continuation leaves no token and no user in localStorage, no
\* Authorization header, and the auth state unauthenticated with token and
\* user null.
C39_LogoutEndsLocalSession ==
    [][\A c \in auth.pending \ auth'.pending :
          (c.op = "logout" /\ auth'.initAuth # "todo") =>
             /\ auth'.localStorage = [token |-> None, user |-> None]
             /\ auth'.Authorization = None
             /\ auth'.state.user = None /\ auth'.state.token = None
             /\ ~auth'.state.isAuthenticated]_vars

\* a logout whose request failed has ended a session that was there
C39_Witness ==
    /\ last = [op |-> "logout", ok |-> FALSE, wasAuthenticated |-> TRUE]
    /\ auth.localStorage.token = None /\ auth.state.token = None
    /\ ~auth.state.isAuthenticated

===============================================================================
